---- MODULE Spec2Model ----
(***************************************************************************)
(* StressVision: the alert engine (AlertManager), the event store          *)
(* (Database) and the stress aggregator (StressCalculator), as state       *)
(* machines translated from the Python sources.                            *)
(*                                                                         *)
(* Time is the wall clock in minutes.  All datetime.now() / time.time()    *)
(* reads of one handler see the same value `now`; the clock advances       *)
(* between handlers in steps of TickMinutes.                               *)
(* Stress levels are fixed-point: the integer 7000 stands for 0.7000       *)
(* (stress_index rounded to two decimals, divided by 100).  Averages are   *)
(* exact fractions [num, den].                                             *)
(***************************************************************************)
EXTENDS Integers, Sequences, FiniteSets, TLC

VARIABLES
    now,                \* wall clock, minutes
    detection_events,   \* Database table detection_events, in insertion order
    alerts,             \* Database table alerts; alert_id = position
    last_alert_times,   \* AlertManager.last_alert_times: alert_key -> time
    global_history,     \* StressCalculator.global_history (deque)
    employee_histories, \* StressCalculator.employee_histories: id -> deque
    stress_events,      \* StressCalculator.stress_events (append-only list)
    reports,            \* Database table reports_15min, in insertion order
    hash_order,         \* iteration order of a set of labels in this process
    embeddings_cache,   \* FaceRecognizer.embeddings_cache, in insertion order
    enrollment_files,   \* the <employee_id>_embedding.json files on disk
    recognition_threshold,  \* FaceRecognizer.threshold
    event_queue,        \* the posted events of the main thread's event loop
    stacks,             \* per thread, the handlers it is running (innermost last)
    frame_count,        \* VideoThread.frame_count
    last_detections,    \* last_detections of VideoThread.run
    observed,           \* history: the observations the analysed frames produced
    config,             \* the constructor arguments AlertManager keeps
    ret                 \* the last handler run, its arguments and its result

\* the state of the report generator
reportVars == <<reports, hash_order>>

\* the state of the face recognizer
registryVars == <<embeddings_cache, enrollment_files, recognition_threshold>>

\* the event loop of the main thread and the handlers in progress
threadVars == <<event_queue, stacks>>

\* the frame loop of the VideoThread
captureVars == <<frame_count, last_detections, observed>>

\* the capture loop and the configuration
otherVars == <<captureVars, config>>

\* the state outside the alert engine and the aggregator
extVars == <<reportVars, registryVars, threadVars, otherVars>>

vars == <<now, detection_events, alerts, last_alert_times,
          global_history, employee_histories, stress_events, ret, extVars>>

----------------------------------------------------------------------------
(* Bounds of the model *)

TickMinutes == 15
MaxTime == 60
MaxDetections == 3
MaxCooldownDetections == 4
MaxAlerts == 3
MaxSamples == 20

(* Configuration (constructor defaults) and literals of the program *)

alert_threshold == 2
alert_window_minutes == 15
cooldown_minutes == 60
max_history == 100
window_size == 30
MinHistory == 5
FatigueHours == 1
FatigueMin == 15
FatigueNeutralMin == 20
QueryLimit == 1000
HighStressLevel == 7000
SeverityHighLevel == 8000
SeverityMediumLevel == 6000
FatigueStressLevel == 5000

(* Python None of an Optional[str], an Optional[float] and a timestamp *)
None == "None"
NoLevel == -1
NoTime == -1

Employees == {"E1", "E2"}
Scopes == Employees \cup {None}
Users == {"u1", "u2"}
NEGATIVE_EMOTIONS == {"angry", "fear", "sad", "disgust", "stress_high", "fatigue"}

\* Python truthiness of an Optional[str] employee_id
Truthy(employee_id) == employee_id # None /\ employee_id # ""

\* Python truthiness of an Optional[float] / Optional[int]
TruthyNum(x) == x # NoLevel /\ x # 0

Min(a, b) == IF a <= b THEN a ELSE b

Reverse(s) == [i \in 1..Len(s) |-> s[Len(s) + 1 - i]]

RECURSIVE SumLevels(_)
SumLevels(s) == IF s = <<>> THEN 0 ELSE s[1].stress_level + SumLevels(Tail(s))

----------------------------------------------------------------------------
(* Database *)

\* Database.get_detections(employee_id, start_time): WHERE employee_id = ?
\* (only for a truthy id) AND timestamp >= ? ORDER BY timestamp DESC LIMIT ?
\* Rows are inserted with nondecreasing timestamps, so the reverse insertion
\* order is a descending timestamp order.
get_detections(employee_id, start_time, limit) ==
    LET Match(d) == /\ (Truthy(employee_id) => d.employee_id = employee_id)
                    /\ d.timestamp >= start_time
        rows == Reverse(SelectSeq(detection_events, Match))
    IN  SubSeq(rows, 1, Min(limit, Len(rows)))

\* Database.add_detection: one INSERT; on an exception nothing is written
add_detection_rows(rows, detection, ok) ==
    IF ok THEN Append(rows, detection) ELSE rows

\* Database.add_alert: INSERT, returns lastrowid, or None (0 here) on an exception
add_alert_id(rows, ok) == IF ok THEN Len(rows) + 1 ELSE 0

add_alert_rows(rows, alert, ok) ==
    IF ok THEN Append(rows, [alert EXCEPT !.alert_id = Len(rows) + 1]) ELSE rows

----------------------------------------------------------------------------
(* AlertManager *)

\* the f-string keys of last_alert_times
KeyScope(employee_id) == IF Truthy(employee_id) THEN employee_id ELSE "global"
HighStressKey(employee_id) == <<"high_stress", KeyScope(employee_id)>>
FatigueKey(employee_id) == <<"fatigue", KeyScope(employee_id)>>

\* a cooldown that measures the elapsed time in seconds
_can_generate_alert_seconds(times, alert_key) ==
    IF alert_key \notin DOMAIN times
    THEN TRUE
    ELSE (now - times[alert_key]) * 60 >= cooldown_minutes

\* a cooldown that excludes the boundary
_can_generate_alert_strict(times, alert_key) ==
    IF alert_key \notin DOMAIN times
    THEN TRUE
    ELSE now - times[alert_key] > cooldown_minutes

\* AlertManager._can_generate_alert
_can_generate_alert(times, alert_key) ==
    IF alert_key \notin DOMAIN times
    THEN TRUE
    ELSE now - times[alert_key] >= cooldown_minutes

\* self.last_alert_times[alert_key] = datetime.now()
SetTime(times, alert_key) ==
    [k \in DOMAIN times \cup {alert_key} |->
        IF k = alert_key THEN now ELSE times[k]]

\* a filter that keeps every detection that has a stress level
stress_detections_of_any_level(detections) ==
    SelectSeq(detections, LAMBDA d : TruthyNum(d.stress_level))

\* a filter that lets a stress level of exactly 0.7 count
stress_detections_of_inclusive(detections) ==
    SelectSeq(detections,
              LAMBDA d : TruthyNum(d.stress_level) /\ d.stress_level >= HighStressLevel)

\* the list comprehension of check_and_generate_alerts
stress_detections_of(detections) ==
    SelectSeq(detections,
              LAMBDA d : TruthyNum(d.stress_level) /\ d.stress_level > HighStressLevel)

\* a classification whose high branch includes the boundary 0.8
SeverityOf_inclusive(num, den) ==
    IF num >= SeverityHighLevel * den THEN "high"
    ELSE IF num > SeverityMediumLevel * den THEN "medium"
    ELSE "low"

\* severity of _create_high_stress_alert, for avg_stress = num / den
SeverityOf(num, den) ==
    IF num > SeverityHighLevel * den THEN "high"
    ELSE IF num > SeverityMediumLevel * den THEN "medium"
    ELSE "low"

\* AlertManager._create_high_stress_alert
_create_high_stress_alert(employee_id, stress_detections) ==
    LET num == SumLevels(stress_detections)
        den == Len(stress_detections)
    IN  [alert_id    |-> 0,
         employee_id |-> employee_id,
         alert_type  |-> "high_stress_prolonged",
         severity    |-> SeverityOf(num, den),
         stress_level |-> [num |-> num, den |-> den],
         timestamp   |-> now,
         status      |-> "pending",
         resolved_at |-> NoTime,
         resolved_by |-> None]

----------------------------------------------------------------------------
(* StressCalculator *)

\* a bounded window that refuses the new sample once it is full
DequeAppend_keep_oldest(d, x) ==
    IF max_history = 0 THEN d
    ELSE IF Len(d) >= max_history THEN d
    ELSE Append(d, x)

\* deque(maxlen = max_history).append
DequeAppend(d, x) ==
    IF max_history = 0 THEN d
    ELSE IF Len(d) >= max_history THEN Append(Tail(d), x)
    ELSE Append(d, x)

\* an add that keeps the samples of identified subjects out of the global
\* window
add_emotion_subject_only(agg, emotion, employee_id, confidence) ==
    LET sample == [emotion |-> emotion, timestamp |-> now, confidence |-> confidence]
        own == IF employee_id \in DOMAIN agg.e THEN agg.e[employee_id] ELSE <<>>
    IN  IF Truthy(employee_id)
        THEN [g |-> agg.g,
              e |-> [k \in DOMAIN agg.e \cup {employee_id} |->
                        IF k = employee_id THEN DequeAppend(own, sample)
                        ELSE agg.e[k]]]
        ELSE [g |-> DequeAppend(agg.g, sample), e |-> agg.e]

\* StressCalculator.add_emotion on the pair agg = [g |-> global_history,
\* e |-> employee_histories]
add_emotion(agg, emotion, employee_id, confidence) ==
    LET sample == [emotion |-> emotion, timestamp |-> now, confidence |-> confidence]
        g1 == DequeAppend(agg.g, sample)
        own == IF employee_id \in DOMAIN agg.e THEN agg.e[employee_id] ELSE <<>>
    IN  IF Truthy(employee_id)
        THEN [g |-> g1,
              e |-> [k \in DOMAIN agg.e \cup {employee_id} |->
                        IF k = employee_id THEN DequeAppend(own, sample)
                        ELSE agg.e[k]]]
        ELSE [g |-> g1, e |-> agg.e]

\* "Seleccionar historial" of calculate_stress_index, check_stress_threshold
\* and get_emotion_distribution
select_history(agg, employee_id) ==
    IF Truthy(employee_id) /\ employee_id \in DOMAIN agg.e
    THEN agg.e[employee_id]
    ELSE agg.g

\* a slice that takes the oldest samples instead of the most recent ones
LastN_oldest(history, window) ==
    IF window < 0
    THEN SubSeq(history, Min(0 - window, Len(history)) + 1, Len(history))
    ELSE SubSeq(history, 1, Min(window, Len(history)))

\* history[-window:] for window # 0; a negative window -k is the slice
\* history[k:], which drops the first k samples
LastN(history, window) ==
    IF window < 0
    THEN SubSeq(history, Min(0 - window, Len(history)) + 1, Len(history))
    ELSE SubSeq(history, Len(history) - Min(window, Len(history)) + 1, Len(history))

CountIn(history, emotions) ==
    Cardinality({i \in 1..Len(history) : history[i].emotion \in emotions})

\* round(negative_count / total * 100.0, 2), in hundredths: round half to even
Round2(negative_count, total) ==
    LET q == (negative_count * 10000) \div total
        r == (negative_count * 10000) % total
    IN  IF 2 * r > total THEN q + 1
        ELSE IF 2 * r = total THEN q + (q % 2)
        ELSE q

\* an index that counts the negative samples of the whole history
calculate_stress_index_whole_count(agg, employee_id, window) ==
    LET w == IF window = 0 THEN window_size ELSE window
        history == select_history(agg, employee_id)
        recent_emotions == LastN(history, w)
        total == Len(recent_emotions)
    IN  IF Len(history) < MinHistory THEN 0
        ELSE IF total = 0 THEN 0
        ELSE Round2(CountIn(history, NEGATIVE_EMOTIONS), total)

\* an index that counts the samples whose label is not negative
calculate_stress_index_inverted(agg, employee_id, window) ==
    LET w == IF window = 0 THEN window_size ELSE window
        history == select_history(agg, employee_id)
        recent_emotions == LastN(history, w)
        total == Len(recent_emotions)
    IN  IF Len(history) < MinHistory THEN 0
        ELSE IF total = 0 THEN 0
        ELSE Round2(total - CountIn(recent_emotions, NEGATIVE_EMOTIONS), total)

\* StressCalculator.calculate_stress_index, in hundredths of a percent
calculate_stress_index(agg, employee_id, window) ==
    LET w == IF window = 0 THEN window_size ELSE window
        history == select_history(agg, employee_id)
        recent_emotions == LastN(history, w)
        total == Len(recent_emotions)
    IN  IF Len(history) < MinHistory THEN 0
        ELSE IF total = 0 THEN 0
        ELSE Round2(CountIn(recent_emotions, NEGATIVE_EMOTIONS), total)

\* a distribution that leaves out the samples of confidence 0
recent_samples_confident(agg, employee_id, hours) ==
    LET cutoff_time == now - hours * 60
    IN  SelectSeq(select_history(agg, employee_id),
                  LAMBDA s : s.timestamp >= cutoff_time /\ s.confidence > 0)

\* StressCalculator.get_emotion_distribution: the samples counted
recent_samples(agg, employee_id, hours) ==
    LET cutoff_time == now - hours * 60
    IN  SelectSeq(select_history(agg, employee_id),
                  LAMBDA s : s.timestamp >= cutoff_time)

\* StressCalculator.get_emotion_distribution: the dict label -> count
get_emotion_distribution(agg, employee_id, hours) ==
    LET recent == recent_samples(agg, employee_id, hours)
    IN  [emotion \in {recent[i].emotion : i \in 1..Len(recent)} |->
            CountIn(recent, {emotion})]

\* dict.get(key, 0)
DictGet(d, key) == IF key \in DOMAIN d THEN d[key] ELSE 0

Agg == [g |-> global_history, e |-> employee_histories]

\* StressCalculator.check_stress_threshold on the aggregator agg and the log
\* events; the threshold is in hundredths of a percent.  The result is the
\* log after the call and the value returned.
check_stress_threshold(agg, events, threshold, employee_id) ==
    LET stress_index == calculate_stress_index(agg, employee_id, 0)
        history == select_history(agg, employee_id)
        last_emotion == IF history # <<>> THEN history[Len(history)].emotion
                        ELSE "unknown"
        event == [timestamp    |-> now,
                  stress_index |-> stress_index,
                  emotion      |-> last_emotion,
                  person_count |-> 1,
                  employee_id  |-> employee_id]
    IN  IF stress_index > threshold
        THEN [events |-> Append(events, event), result |-> TRUE]
        ELSE [events |-> events, result |-> FALSE]

RECURSIVE KeysInOrder(_, _)
\* the keys of the dict built by the counting loop of get_emotion_distribution,
\* in insertion order: a label enters when its first sample is met
KeysInOrder(recent, keys) ==
    IF recent = <<>> THEN keys
    ELSE KeysInOrder(Tail(recent),
                     IF \E i \in 1..Len(keys) : keys[i] = recent[1].emotion
                     THEN keys
                     ELSE Append(keys, recent[1].emotion))

RECURSIVE MaxByCount_last_wins(_, _, _)
\* a maximum that lets a later item with an equal count replace the best
MaxByCount_last_wins(distribution, keys, best) ==
    IF keys = <<>> THEN best
    ELSE MaxByCount_last_wins(distribution, Tail(keys),
                              IF distribution[keys[1]] >= distribution[best]
                              THEN keys[1] ELSE best)

RECURSIVE MaxByCount(_, _, _)
\* max(distribution.items(), key = lambda x: x[1])[0] over the remaining
\* items: a later item replaces best only with a greater count
MaxByCount(distribution, keys, best) ==
    IF keys = <<>> THEN best
    ELSE MaxByCount(distribution, Tail(keys),
                    IF distribution[keys[1]] > distribution[best]
                    THEN keys[1] ELSE best)

RECURSIVE SumCounts(_, _)
\* sum(distribution.get(e, 0) for e in labels)
SumCounts(distribution, labels) ==
    IF labels = {} THEN 0
    ELSE LET e == CHOOSE x \in labels : TRUE
         IN  DictGet(distribution, e) + SumCounts(distribution, labels \ {e})

MetricsHours == 24

\* StressCalculator.get_metrics
get_metrics(agg, events, employee_id) ==
    LET stress_index == calculate_stress_index(agg, employee_id, 0)
        recent == recent_samples(agg, employee_id, MetricsHours)
        distribution == get_emotion_distribution(agg, employee_id, MetricsHours)
        keys == KeysInOrder(recent, <<>>)
        total_detections == SumCounts(distribution, DOMAIN distribution)
        negative_count == SumCounts(distribution, NEGATIVE_EMOTIONS)
        predominant_emotion ==
            IF keys # <<>> THEN MaxByCount(distribution, Tail(keys), keys[1])
            ELSE "neutral"
    IN  [stress_index        |-> stress_index,
         total_detections    |-> total_detections,
         negative_count      |-> negative_count,
         negative_percentage |-> IF total_detections > 0
                                 THEN [num |-> negative_count * 100,
                                       den |-> total_detections]
                                 ELSE [num |-> 0, den |-> 1],
         predominant_emotion |-> predominant_emotion,
         emotion_distribution |-> distribution,
         stress_events_count |->
            Cardinality({i \in 1..Len(events) :
                            events[i].employee_id = employee_id
                               \/ employee_id = None})]

----------------------------------------------------------------------------
(* AlertManager.check_and_generate_alerts *)

\* a high-stress branch that stamps the cooldown entry before it knows
\* whether the write succeeded
high_stress_branch_stamp_first(st, employee_id, ok) ==
    LET window_start == now - alert_window_minutes
        detections == get_detections(employee_id, window_start, QueryLimit)
        stress_detections == stress_detections_of(detections)
        alert_key == HighStressKey(employee_id)
        alert == _create_high_stress_alert(employee_id, stress_detections)
        alert_id == add_alert_id(st.tbl, ok)
    IN  IF Len(stress_detections) >= alert_threshold
           /\ _can_generate_alert(st.times, alert_key)
        THEN IF TruthyNum(alert_id)
             THEN [tbl    |-> add_alert_rows(st.tbl, alert, ok),
                   times  |-> SetTime(st.times, alert_key),
                   out    |-> Append(st.out, [alert EXCEPT !.alert_id = alert_id]),
                   failed |-> st.failed]
             ELSE [st EXCEPT !.failed = @ \cup {alert_key},
                             !.times = SetTime(st.times, alert_key)]
        ELSE st

\* The high-stress branch (lines 59-88).  st = [tbl, times, out, failed]:
\* the alerts table, the cooldown map, the returned list, the failed writes.
high_stress_branch(st, employee_id, ok) ==
    LET window_start == now - alert_window_minutes
        detections == get_detections(employee_id, window_start, QueryLimit)
        stress_detections == stress_detections_of(detections)
        alert_key == HighStressKey(employee_id)
        alert == _create_high_stress_alert(employee_id, stress_detections)
        alert_id == add_alert_id(st.tbl, ok)
    IN  IF Len(stress_detections) >= alert_threshold
           /\ _can_generate_alert(st.times, alert_key)
        THEN IF TruthyNum(alert_id)
             THEN [tbl    |-> add_alert_rows(st.tbl, alert, ok),
                   times  |-> SetTime(st.times, alert_key),
                   out    |-> Append(st.out, [alert EXCEPT !.alert_id = alert_id]),
                   failed |-> st.failed]
             ELSE [st EXCEPT !.failed = @ \cup {alert_key}]
        ELSE st

\* a fatigue check that returns its alert although the write failed
_check_fatigue_returns_unsaved(st, employee_id, ok) ==
    LET distribution == get_emotion_distribution(Agg, employee_id, FatigueHours)
        fatigue_count == DictGet(distribution, "fatigue")
        neutral_count == DictGet(distribution, "neutral")
        alert_key == FatigueKey(employee_id)
        alert == [alert_id    |-> 0,
                  employee_id |-> employee_id,
                  alert_type  |-> "fatigue_detected",
                  severity    |-> "medium",
                  stress_level |-> [num |-> FatigueStressLevel, den |-> 1],
                  timestamp   |-> now,
                  status      |-> "pending",
                  resolved_at |-> NoTime,
                  resolved_by |-> None]
        alert_id == add_alert_id(st.tbl, ok)
    IN  IF (fatigue_count >= FatigueMin
            \/ fatigue_count + neutral_count >= FatigueNeutralMin)
           /\ _can_generate_alert(st.times, alert_key)
        THEN [tbl    |-> add_alert_rows(st.tbl, alert, ok),
              times  |-> SetTime(st.times, alert_key),
              out    |-> Append(st.out, [alert EXCEPT !.alert_id = alert_id]),
              failed |-> IF ok THEN st.failed ELSE st.failed \cup {alert_key}]
        ELSE st

\* AlertManager._check_fatigue and the append of its result (lines 90-93)
_check_fatigue(st, employee_id, ok) ==
    LET distribution == get_emotion_distribution(Agg, employee_id, FatigueHours)
        fatigue_count == DictGet(distribution, "fatigue")
        neutral_count == DictGet(distribution, "neutral")
        alert_key == FatigueKey(employee_id)
        alert == [alert_id    |-> 0,
                  employee_id |-> employee_id,
                  alert_type  |-> "fatigue_detected",
                  severity    |-> "medium",
                  stress_level |-> [num |-> FatigueStressLevel, den |-> 1],
                  timestamp   |-> now,
                  status      |-> "pending",
                  resolved_at |-> NoTime,
                  resolved_by |-> None]
        alert_id == add_alert_id(st.tbl, ok)
    IN  IF (fatigue_count >= FatigueMin
            \/ fatigue_count + neutral_count >= FatigueNeutralMin)
           /\ _can_generate_alert(st.times, alert_key)
        THEN IF TruthyNum(alert_id)
             THEN [tbl    |-> add_alert_rows(st.tbl, alert, ok),
                   times  |-> SetTime(st.times, alert_key),
                   out    |-> Append(st.out, [alert EXCEPT !.alert_id = alert_id]),
                   failed |-> st.failed]
             ELSE [st EXCEPT !.failed = @ \cup {alert_key}]
        ELSE st

check_and_generate_alerts(employee_id, okHigh, okFatigue) ==
    LET st0 == [tbl |-> alerts, times |-> last_alert_times,
                out |-> <<>>, failed |-> {}]
        st1 == high_stress_branch(st0, employee_id, okHigh)
    IN  _check_fatigue(st1, employee_id, okFatigue)

----------------------------------------------------------------------------
(* FaceRecognizer *)

\* Embeddings are vectors of integers. A cosine similarity dot / (|u| |v|) is
\* kept exactly as the sign of the dot product with the fraction
\* dot^2 / (|u|^2 |v|^2): sgn * num / den is sign(x) x^2 for the similarity x,
\* which orders similarities as x does.
Dot(u, v) == u[1] * v[1] + u[2] * v[2]
Sign(x) == IF x > 0 THEN 1 ELSE IF x < 0 THEN -1 ELSE 0

\* the float 0.0
SimZero == [sgn |-> 0, num |-> 0, den |-> 1]

\* FaceRecognizer._cosine_similarity: 0.0 when a norm is 0
_cosine_similarity(vec1, vec2) ==
    IF Dot(vec1, vec1) = 0 \/ Dot(vec2, vec2) = 0
    THEN SimZero
    ELSE [sgn |-> Sign(Dot(vec1, vec2)),
          num |-> Dot(vec1, vec2) * Dot(vec1, vec2),
          den |-> Dot(vec1, vec1) * Dot(vec2, vec2)]

\* a > b and a >= b on similarities
SimGreater(a, b) == a.sgn * a.num * b.den > b.sgn * b.num * a.den
SimAtLeast(a, b) == a.sgn * a.num * b.den >= b.sgn * b.num * a.den

\* the default threshold 0.70 (0.49 squared) and a threshold of 0.0
DefaultThreshold == [sgn |-> 1, num |-> 49, den |-> 100]
Thresholds == {DefaultThreshold, SimZero}

\* Python None of an Optional[np.ndarray]
NoEmbedding == <<>>

RECURSIVE BestMatch_last_wins(_, _, _)
\* a loop in which a later entry with an equal similarity replaces the best
BestMatch_last_wins(query_embedding, entries, best) ==
    IF entries = <<>> THEN best
    ELSE LET similarity == _cosine_similarity(query_embedding, entries[1].embedding)
         IN  BestMatch_last_wins(query_embedding, Tail(entries),
                       IF SimAtLeast(similarity, best.similarity)
                       THEN [match |-> entries[1].employee_id,
                             similarity |-> similarity]
                       ELSE best)

RECURSIVE BestMatch(_, _, _)
\* the loop of recognize_face over embeddings_cache.items(): an entry replaces
\* the best only with a similarity > best_similarity
BestMatch(query_embedding, entries, best) ==
    IF entries = <<>> THEN best
    ELSE LET similarity == _cosine_similarity(query_embedding, entries[1].embedding)
         IN  BestMatch(query_embedding, Tail(entries),
                       IF SimGreater(similarity, best.similarity)
                       THEN [match |-> entries[1].employee_id,
                             similarity |-> similarity]
                       ELSE best)

\* a recognizer that reports its best match whatever the similarity
recognize_face_no_threshold(query_embedding) ==
    IF query_embedding = NoEmbedding \/ Len(embeddings_cache) = 0
    THEN [employee_id |-> None, similarity |-> SimZero]
    ELSE LET best == BestMatch(query_embedding, embeddings_cache,
                               [match |-> None, similarity |-> SimZero])
         IN  [employee_id |-> best.match, similarity |-> best.similarity]

\* FaceRecognizer.recognize_face, from the embedding generate_embedding gave
\* (None when it failed)
recognize_face(query_embedding) ==
    IF query_embedding = NoEmbedding \/ Len(embeddings_cache) = 0
    THEN [employee_id |-> None, similarity |-> SimZero]
    ELSE LET best == BestMatch(query_embedding, embeddings_cache,
                               [match |-> None, similarity |-> SimZero])
         IN  IF SimAtLeast(best.similarity, recognition_threshold)
             THEN [employee_id |-> best.match, similarity |-> best.similarity]
             ELSE [employee_id |-> None, similarity |-> best.similarity]

MinSamples == 3

\* the quality bound 0.70 as a fraction
MinQuality == [num |-> 7, den |-> 10]

\* np.linalg.norm of a sample embedding (the sample embeddings of the model
\* have integer norms, so that their cosine similarities are fractions)
Norm(v) == CHOOSE n \in 0..Dot(v, v) : n * n = Dot(v, v)

\* _cosine_similarity of two sample embeddings, as a fraction
SampleSimilarity(vec1, vec2) ==
    IF Norm(vec1) = 0 \/ Norm(vec2) = 0
    THEN [num |-> 0, den |-> 1]
    ELSE [num |-> Dot(vec1, vec2), den |-> Norm(vec1) * Norm(vec2)]

\* the similarities of the pairs i < j, in the order of the two loops
PairSimilarities(embeddings) ==
    LET pairs == {p \in (1..Len(embeddings)) \X (1..Len(embeddings)) : p[1] < p[2]}
    IN  {<<p, SampleSimilarity(embeddings[p[1]], embeddings[p[2]])>> : p \in pairs}

RECURSIVE SumFractions(_)
\* the sum of the fractions of a set of tagged fractions
SumFractions(tagged) ==
    IF tagged = {} THEN [num |-> 0, den |-> 1]
    ELSE LET t == CHOOSE x \in tagged : TRUE
             rest == SumFractions(tagged \ {t})
         IN  [num |-> t[2].num * rest.den + rest.num * t[2].den,
              den |-> t[2].den * rest.den]

\* quality_score < 0.70, for quality_score = np.mean(similarities)
QualityBelow(embeddings, bound) ==
    LET similarities == PairSimilarities(embeddings)
        total == SumFractions(similarities)
    IN  total.num * bound.den < bound.num * Cardinality(similarities) * total.den

RECURSIVE SumVectors(_)
SumVectors(embeddings) ==
    IF embeddings = <<>> THEN <<0, 0>>
    ELSE LET rest == SumVectors(Tail(embeddings))
         IN  <<embeddings[1][1] + rest[1], embeddings[1][2] + rest[2]>>

\* np.mean(embeddings, axis=0), kept as the sum of the vectors with their
\* number (the mean is sum / count; a cosine similarity does not depend on
\* the positive factor)
MeanEmbedding(embeddings) ==
    [sum |-> SumVectors(embeddings), count |-> Len(embeddings)]

\* d[key] = value on a dict kept as a list of entries in insertion order: an
\* existing key keeps its place
DictSet(entries, employee_id, embedding) ==
    IF \E i \in 1..Len(entries) : entries[i].employee_id = employee_id
    THEN [i \in 1..Len(entries) |->
             IF entries[i].employee_id = employee_id
             THEN [employee_id |-> employee_id, embedding |-> embedding]
             ELSE entries[i]]
    ELSE Append(entries, [employee_id |-> employee_id, embedding |-> embedding])

\* the steps of the try block of enroll_employee that can raise: open() of
\* the JSON file, json.dump into it, and the writing of the samples
\* (mkdir, cv2.imwrite)
FailPoints == {"none", "open", "dump", "samples"}

\* FaceRecognizer.enroll_employee, from the embeddings generate_embedding gave
\* for the samples (None for a failed one): the cache and the files
\* afterwards, and the returned value
enroll_employee(employee_id, sample_embeddings, failAt) ==
    LET embeddings == SelectSeq(sample_embeddings, LAMBDA x : x # NoEmbedding)
        avg_embedding == MeanEmbedding(embeddings)
        same == [cache |-> embeddings_cache, files |-> enrollment_files,
                 result |-> FALSE]
        written == [enrollment_files EXCEPT ![employee_id] =
                       [state |-> "written", embedding |-> avg_embedding]]
        updated == DictSet(embeddings_cache, employee_id, avg_embedding.sum)
    IN  IF Len(sample_embeddings) < MinSamples THEN same
        ELSE IF Len(embeddings) < MinSamples THEN same
        ELSE IF QualityBelow(embeddings, MinQuality) THEN same
        ELSE IF failAt = "open" THEN same
        ELSE IF failAt = "dump"
             THEN [same EXCEPT !.files =
                      [enrollment_files EXCEPT ![employee_id] = [state |-> "partial"]]]
        ELSE IF failAt = "samples"
             THEN [cache |-> updated, files |-> written, result |-> FALSE]
        ELSE [cache |-> updated, files |-> written, result |-> TRUE]

----------------------------------------------------------------------------
(* ReportGenerator *)

report_interval_minutes == 15
ReportDetectionLimit == 10000
ReportAlertLimit == 1000

\* Python None of an Optional[Dict] report
NoReport == [timestamp |-> NoTime]

\* Database.get_detections(start_time, end_time, limit): WHERE timestamp >= ?
\* AND timestamp <= ? ORDER BY timestamp DESC LIMIT ? (no employee filter is
\* passed by the report generator)
get_detections_period(start_time, end_time, limit) ==
    LET Match(d) == d.timestamp >= start_time /\ d.timestamp <= end_time
        rows == Reverse(SelectSeq(detection_events, Match))
    IN  SubSeq(rows, 1, Min(limit, Len(rows)))

\* Database.get_alerts(limit): no status and no employee filter,
\* ORDER BY timestamp DESC LIMIT ?
get_alerts(limit) ==
    LET rows == Reverse(alerts)
    IN  SubSeq(rows, 1, Min(limit, Len(rows)))

\* the labels of a list of rows, in the order of the list
EmotionsOf(rows) == [i \in 1..Len(rows) |-> rows[i].emotion]

\* emotions.count(label)
CountLabel(emotions, label) ==
    Cardinality({i \in 1..Len(emotions) : emotions[i] = label})

\* list(set(emotions)): the distinct labels in the iteration order of the set
SetOrder(emotions) ==
    SelectSeq(hash_order, LAMBDA l : \E i \in 1..Len(emotions) : emotions[i] = l)

RECURSIVE MaxByKey(_, _, _)
\* max(iterable, key = emotions.count): the first item of the iteration whose
\* key is maximal
MaxByKey(emotions, order, best) ==
    IF order = <<>> THEN best
    ELSE MaxByKey(emotions, Tail(order),
                  IF CountLabel(emotions, order[1]) > CountLabel(emotions, best)
                  THEN order[1] ELSE best)

\* round(avg_stress_level, 2) of sum / len, in hundredths: round half to even
RoundAvg2(sum, len) ==
    LET total == len * 100
        q == sum \div total
        r == sum % total
    IN  IF 2 * r > total THEN q + 1
        ELSE IF 2 * r = total THEN q + (q % 2)
        ELSE q

\* ReportGenerator._get_employee_details: one entry per detected employee
_get_employee_details(employee_ids, detections) ==
    [employee_id \in employee_ids |->
        LET employee_detections ==
                SelectSeq(detections, LAMBDA d : d.employee_id = employee_id)
            stress_levels ==
                SelectSeq(employee_detections, LAMBDA d : TruthyNum(d.stress_level))
            emotions ==
                EmotionsOf(SelectSeq(employee_detections,
                                     LAMBDA d : Truthy(d.emotion)))
            order == SetOrder(emotions)
        IN  [detection_count |-> Len(employee_detections),
             avg_stress_level |->
                 IF stress_levels # <<>>
                 THEN [num |-> SumLevels(stress_levels), den |-> Len(stress_levels)]
                 ELSE [num |-> 0, den |-> 1],
             predominant_emotion |->
                 IF emotions # <<>>
                 THEN MaxByKey(emotions, Tail(order), order[1])
                 ELSE "unknown"]]

\* the report_data dict built by generate_report from a non-empty period
report_data_of(start_time, end_time, detections) ==
    LET employees_detected ==
            {detections[i].employee_id : i \in
                {j \in 1..Len(detections) : Truthy(detections[j].employee_id)}}
        stress_levels ==
            SelectSeq(detections, LAMBDA d : d.stress_level # NoLevel)
        labels == [i \in 1..Len(detections) |->
                     IF Truthy(detections[i].emotion)
                     THEN detections[i].emotion ELSE "unknown"]
        found == get_alerts(ReportAlertLimit)
        alerts_in_period ==
            SelectSeq(found, LAMBDA a : start_time <= a.timestamp
                                        /\ a.timestamp <= end_time)
    IN  [timestamp |-> end_time,
         period_start |-> start_time,
         period_end |-> end_time,
         total_detections |-> Len(detections),
         employees_detected |-> Cardinality(employees_detected),
         avg_stress_level |->
             IF stress_levels # <<>>
             THEN RoundAvg2(SumLevels(stress_levels), Len(stress_levels))
             ELSE 0,
         emotion_distribution |->
             [l \in {labels[i] : i \in 1..Len(labels)} |-> CountLabel(labels, l)],
         alerts_generated |-> Len(alerts_in_period),
         employee_details |-> _get_employee_details(employees_detected, detections)]

\* ReportGenerator._save_report: one INSERT; an exception is printed and dropped
_save_report(rows, report_data, ok) ==
    IF ok THEN Append(rows, report_data) ELSE rows

\* a generator that also stores a report of an empty period
generate_report_saves_empty(okSave) ==
    LET end_time == now
        start_time == end_time - report_interval_minutes
        detections == get_detections_period(start_time, end_time, ReportDetectionLimit)
        report_data == report_data_of(start_time, end_time, detections)
    IN  [reports |-> _save_report(reports, report_data, okSave),
         result |-> IF detections = <<>> THEN NoReport ELSE report_data]

\* ReportGenerator.generate_report: the rows of reports_15min afterwards and
\* the returned value
generate_report(okSave) ==
    LET end_time == now
        start_time == end_time - report_interval_minutes
        detections == get_detections_period(start_time, end_time, ReportDetectionLimit)
        report_data == report_data_of(start_time, end_time, detections)
    IN  IF detections = <<>>
        THEN [reports |-> reports, result |-> NoReport]
        ELSE [reports |-> _save_report(reports, report_data, okSave),
              result |-> report_data]

\* ReportGenerator.get_latest_report: ORDER BY timestamp DESC LIMIT 1 returns
\* one of the rows with the greatest timestamp (which one, among equal
\* timestamps, the query does not say); None on an exception or without rows
get_latest_report(rows, ok) ==
    IF ~ok \/ rows = <<>> THEN {NoReport}
    ELSE {rows[i] : i \in {j \in 1..Len(rows) :
                              \A k \in 1..Len(rows) :
                                  rows[k].timestamp <= rows[j].timestamp}}

----------------------------------------------------------------------------
(* Actions *)

\* the labels the reports are built from, and the orders in which a set of
\* them can be iterated (str hashes differ from one process to the next)
ReportEmotions == {"happy", "sad", "neutral", "angry"}
HashOrders == {<<"happy", "sad", "neutral", "angry">>,
               <<"sad", "angry", "neutral", "happy">>}

\* the GUI thread, which runs the event loop, and the VideoThread
Threads == {"main", "capture"}

\* no event is posted and no handler runs
InitThreads ==
    /\ event_queue = <<>>
    /\ stacks = [t \in Threads |-> <<>>]

\* the VideoThread has read no frame; AlertManager was built with its defaults
InitOther ==
    /\ frame_count = 0
    /\ last_detections = <<>>
    /\ observed = 0
    /\ config = [alert_threshold |-> alert_threshold,
                 alert_window_minutes |-> alert_window_minutes,
                 cooldown_minutes |-> cooldown_minutes]

\* FaceRecognizer.__init__ with an empty enrollments directory
InitRegistry ==
    /\ embeddings_cache = <<>>
    /\ enrollment_files = [e \in Employees |-> [state |-> "absent"]]
    /\ recognition_threshold = DefaultThreshold

\* no report was written yet; the iteration order is one of the process
InitExt ==
    /\ reports = <<>>
    /\ hash_order = <<"happy", "sad", "neutral", "angry">>
    /\ InitRegistry
    /\ InitThreads
    /\ InitOther

Init ==
    /\ now = 0
    /\ detection_events = <<>>
    /\ alerts = <<>>
    /\ last_alert_times = <<>>
    /\ global_history = <<>>
    /\ employee_histories = <<>>
    /\ stress_events = <<>>
    /\ InitExt
    /\ ret = [op |-> "init"]

\* the wall clock advances between two handlers
Tick ==
    /\ now + TickMinutes <= MaxTime
    /\ now' = now + TickMinutes
    /\ ret' = [op |-> "tick"]
    /\ UNCHANGED extVars
    /\ UNCHANGED <<detection_events, alerts, last_alert_times,
                   global_history, employee_histories,
                   stress_events>>

\* Database.add_detection called with one event stamped now
AddDetection(employee_id, stress_level, ok) ==
    /\ detection_events' =
          add_detection_rows(detection_events,
                             [employee_id |-> employee_id, timestamp |-> now,
                              stress_level |-> stress_level, emotion |-> "angry"],
                             ok)
    /\ ret' = [op |-> "add_detection"]
    /\ UNCHANGED extVars
    /\ UNCHANGED <<now, alerts, last_alert_times, global_history, employee_histories,
                   stress_events>>

\* MainWindow.check_alerts -> AlertManager.check_and_generate_alerts
Evaluate(employee_id, okHigh, okFatigue) ==
    LET st == check_and_generate_alerts(employee_id, okHigh, okFatigue)
    IN  /\ Len(alerts) + 2 <= MaxAlerts
        /\ alerts' = st.tbl
        /\ last_alert_times' = st.times
        /\ ret' = [op |-> "evaluate", employee_id |-> employee_id,
                   alerts |-> st.out, failed |-> st.failed]
        /\ UNCHANGED extVars
        /\ UNCHANGED <<now, detection_events, global_history, employee_histories,
                   stress_events>>

\* an UPDATE that stamps resolved_at whatever the new status is
update_alert_status_stamp_always(rows, alert_id, status, resolved_by, ok) ==
    IF ok
    THEN [i \in 1..Len(rows) |->
            IF rows[i].alert_id = alert_id
            THEN [rows[i] EXCEPT !.status = status,
                                 !.resolved_at = now,
                                 !.resolved_by = resolved_by]
            ELSE rows[i]]
    ELSE rows

\* an UPDATE that does not record who resolved the alert
update_alert_status_no_actor(rows, alert_id, status, resolved_by, ok) ==
    LET resolved_at == IF status = "resolved" THEN now ELSE NoTime
    IN  IF ok
        THEN [i \in 1..Len(rows) |->
                IF rows[i].alert_id = alert_id
                THEN [rows[i] EXCEPT !.status = status,
                                     !.resolved_at = resolved_at]
                ELSE rows[i]]
        ELSE rows

\* Database.update_alert_status: one UPDATE ... WHERE alert_id = ?; on an
\* exception the transaction is rolled back
update_alert_status(rows, alert_id, status, resolved_by, ok) ==
    LET resolved_at == IF status = "resolved" THEN now ELSE NoTime
    IN  IF ok
        THEN [i \in 1..Len(rows) |->
                IF rows[i].alert_id = alert_id
                THEN [rows[i] EXCEPT !.status = status,
                                     !.resolved_at = resolved_at,
                                     !.resolved_by = resolved_by]
                ELSE rows[i]]
        ELSE rows

\* the status of the row with this id before the call ("none": no such row)
StatusOf(rows, alert_id) ==
    IF alert_id \in 1..Len(rows) THEN rows[alert_id].status ELSE "none"

\* AlertManager.acknowledge_alert
Acknowledge(alert_id, user_id, ok) ==
    /\ alerts' = update_alert_status(alerts, alert_id, "acknowledged", user_id, ok)
    /\ ret' = [op |-> "acknowledge", alert_id |-> alert_id, user_id |-> user_id,
               result |-> ok, was |-> StatusOf(alerts, alert_id)]
    /\ UNCHANGED extVars
    /\ UNCHANGED <<now, detection_events, last_alert_times,
                   global_history, employee_histories,
                   stress_events>>

\* AlertManager.resolve_alert
Resolve(alert_id, user_id, ok) ==
    /\ alerts' = update_alert_status(alerts, alert_id, "resolved", user_id, ok)
    /\ ret' = [op |-> "resolve", alert_id |-> alert_id, user_id |-> user_id,
               result |-> ok, was |-> StatusOf(alerts, alert_id)]
    /\ UNCHANGED extVars
    /\ UNCHANGED <<now, detection_events, last_alert_times,
                   global_history, employee_histories,
                   stress_events>>

\* the loop of MainWindow.process_detections from detection i on;
\* st = [agg, rows]; the write of detection failAt raises inside add_detection
RECURSIVE process_loop(_, _, _, _)
process_loop(st, detections, i, failAt) ==
    IF i > Len(detections) THEN st
    ELSE LET d == detections[i]
             agg1 == add_emotion(st.agg, d.emotion, d.employee_id, d.confidence)
             stress_level == calculate_stress_index(agg1, d.employee_id, 0)
             detection_event == [employee_id  |-> d.employee_id,
                                 timestamp    |-> now,
                                 stress_level |-> stress_level,
                                 emotion      |-> d.emotion]
         IN  process_loop([agg  |-> agg1,
                           rows |-> add_detection_rows(st.rows, detection_event,
                                                       i # failAt)],
                          detections, i + 1, failAt)

\* MainWindow.on_frame_ready -> process_detections(detections)
ProcessDetections(detections, failAt) ==
    LET st == process_loop([agg |-> Agg, rows |-> detection_events],
                           detections, 1, failAt)
    IN  /\ Len(global_history) + Len(detections) <= MaxSamples
        /\ global_history' = st.agg.g
        /\ employee_histories' = st.agg.e
        /\ detection_events' = st.rows
        /\ ret' = [op |-> "process_detections"]
        /\ UNCHANGED extVars
        /\ UNCHANGED <<now, alerts, last_alert_times, stress_events>>

\* StressCalculator.add_emotion(emotion, employee_id, confidence)
AddEmotion(emotion, employee_id, confidence) ==
    LET agg == add_emotion(Agg, emotion, employee_id, confidence)
    IN  /\ global_history' = agg.g
        /\ employee_histories' = agg.e
        /\ ret' = [op |-> "add_emotion", emotion |-> emotion,
                   employee_id |-> employee_id, confidence |-> confidence]
        /\ UNCHANGED extVars
        /\ UNCHANGED <<now, detection_events, alerts, last_alert_times,
                       stress_events>>

\* StressCalculator.calculate_stress_index(employee_id, window); window = 0
\* stands for the default None
CalculateStressIndex(employee_id, window) ==
    /\ ret' = [op |-> "calculate_stress_index", employee_id |-> employee_id,
               window |-> window,
               result |-> calculate_stress_index(Agg, employee_id, window)]
    /\ UNCHANGED extVars
    /\ UNCHANGED <<now, detection_events, alerts, last_alert_times,
                   global_history, employee_histories, stress_events>>

\* StressCalculator.check_stress_threshold(threshold, employee_id)
CheckStressThreshold(threshold, employee_id) ==
    LET r == check_stress_threshold(Agg, stress_events, threshold, employee_id)
    IN  /\ stress_events' = r.events
        /\ ret' = [op |-> "check_stress_threshold", threshold |-> threshold,
                   employee_id |-> employee_id, result |-> r.result]
        /\ UNCHANGED extVars
        /\ UNCHANGED <<now, detection_events, alerts, last_alert_times,
                       global_history, employee_histories>>

\* StressCalculator.get_metrics(employee_id)
GetMetrics(employee_id) ==
    /\ ret' = [op |-> "get_metrics", employee_id |-> employee_id,
               result |-> get_metrics(Agg, stress_events, employee_id)]
    /\ UNCHANGED extVars
    /\ UNCHANGED <<now, detection_events, alerts, last_alert_times,
                   global_history, employee_histories, stress_events>>

\* stress levels of the events written directly to the store
LevelInputs == {7000, 8000, 9000}

\* scopes of the events written and of the evaluations
AlertScopes == {None, "E1"}

\* The alert engine over an event store filled by add_detection: which
\* events count, and the severity of the alert
NextAlert ==
    \/ Tick
    \/ /\ Len(detection_events) < MaxDetections
       /\ \E e \in AlertScopes, l \in LevelInputs : AddDetection(e, l, TRUE)
    \/ \E e \in AlertScopes, okHigh \in BOOLEAN, okFatigue \in BOOLEAN :
          Evaluate(e, okHigh, okFatigue)

SpecAlert == Init /\ [][NextAlert]_vars

\* The alert engine under a lasting high-stress condition: the cooldown
NextCooldown ==
    \/ Tick
    \/ /\ Len(detection_events) < MaxCooldownDetections
       /\ \E e \in AlertScopes : AddDetection(e, 9000, TRUE)
    \/ \E e \in AlertScopes, okHigh \in BOOLEAN, okFatigue \in BOOLEAN :
          Evaluate(e, okHigh, okFatigue)

SpecCooldown == Init /\ [][NextCooldown]_vars

\* the frames handed over by the capture thread: n faces with one label
BatchSizes == {10, 15}
BatchEmotions == {"fatigue", "neutral"}
BatchScopes == {None, "E1"}
Batches ==
    {[i \in 1..n |-> [emotion |-> em, employee_id |-> e, confidence |-> 90]] :
        n \in BatchSizes, em \in BatchEmotions, e \in BatchScopes}

\* The aggregator fed by process_detections, and the alert engine on top
NextAgg ==
    \/ Tick
    \/ \E b \in Batches : ProcessDetections(b, 0)
    \/ \E e \in Scopes, okHigh \in BOOLEAN, okFatigue \in BOOLEAN :
          Evaluate(e, okHigh, okFatigue)

SpecAgg == Init /\ [][NextAgg]_vars

\* The alert lifecycle: alerts raised by the engine, then acknowledged and
\* resolved by the operators
NextLife ==
    \/ Tick
    \/ /\ Len(detection_events) < MaxCooldownDetections
       /\ AddDetection(None, 9000, TRUE)
    \/ Evaluate(None, TRUE, TRUE)
    \/ \E id \in 1..MaxAlerts, u \in Users, ok \in BOOLEAN : Acknowledge(id, u, ok)
    \/ \E id \in 1..MaxAlerts, u \in Users, ok \in BOOLEAN : Resolve(id, u, ok)

SpecLife == Init /\ [][NextLife]_vars

MaxCalcSamples == 5
MaxStressEvents == 2

\* the labels, subjects, windows and thresholds handed to the aggregator
CalcEmotions == {"angry", "neutral"}
CalcScopes == {None, "E1"}
CalcWindows == {0, 3, -2}
CalcThresholds == {6000}

\* The aggregator on its own: samples added one by one, the index queried
\* and the threshold checked for every scope, also for a subject never seen
NextCalc ==
    \/ /\ Len(global_history) < MaxCalcSamples
       /\ \E em \in CalcEmotions, e \in CalcScopes : AddEmotion(em, e, 90)
    \/ \E e \in Scopes, w \in CalcWindows : CalculateStressIndex(e, w)
    \/ /\ Len(stress_events) < MaxStressEvents
       /\ \E th \in CalcThresholds, e \in Scopes : CheckStressThreshold(th, e)

SpecCalc == Init /\ [][NextCalc]_vars

\* n samples with one label, all stamped at time 0
Block(n, label) ==
    [i \in 1..n |-> [emotion |-> label, timestamp |-> 0, confidence |-> 90]]

\* the histories the index is computed on: sad samples, then neutral ones,
\* then fatigue ones; among them 31 samples whose last 30 hold 16 negatives
IndexHistories ==
    {h \in {Block(a, "sad") \o Block(b, "neutral") \o Block(c, "fatigue") :
               a \in {0, 1, 2}, b \in {0, 3, 14, 31}, c \in {0, 1, 4, 16}} :
        h # <<>>}

IndexWindows == {0, 3, 30, 40, -2}

\* the aggregator after the samples of E1 and then those of E2 were added
InitIndex ==
    /\ now = 0
    /\ detection_events = <<>>
    /\ alerts = <<>>
    /\ last_alert_times = <<>>
    /\ stress_events = <<>>
    /\ InitExt
    /\ \E h1 \in IndexHistories, h2 \in IndexHistories :
          /\ employee_histories = [k \in Employees |-> IF k = "E1" THEN h1 ELSE h2]
          /\ global_history = h1 \o h2
    /\ ret = [op |-> "init"]

\* The stress index as a function of the history, the scope and the window
NextIndex == \E e \in Scopes, w \in IndexWindows : CalculateStressIndex(e, w)

SpecIndex == InitIndex /\ [][NextIndex]_vars

MaxWindowAdds == 3

\* n samples told apart by their confidence, in arrival order
Numbered(n) ==
    [i \in 1..n |-> [emotion |-> "neutral", timestamp |-> 0, confidence |-> i]]

\* the aggregator after n samples, all of unidentified faces or all of E1,
\* with the windows full or nearly full
InitWindow ==
    /\ now = 0
    /\ detection_events = <<>>
    /\ alerts = <<>>
    /\ last_alert_times = <<>>
    /\ stress_events = <<>>
    /\ InitExt
    /\ \E n \in (max_history - 2)..max_history, who \in {None, "E1"} :
          /\ global_history = Numbered(n)
          /\ employee_histories =
                IF who = None THEN <<>> ELSE [k \in {who} |-> Numbered(n)]
    /\ ret = [op |-> "init"]

\* The windows at their capacity: samples of every scope keep arriving
NextWindow ==
    /\ Len(global_history) < max_history \/ global_history[1].confidence <= MaxWindowAdds
    /\ \E em \in CalcEmotions, e \in Scopes : AddEmotion(em, e, 0)

SpecWindow == InitWindow /\ [][NextWindow]_vars

SleepMinutes == 1455
MaxSleeps == 1
MaxMetricSamples == 4

MetricEmotions == {"happy", "sad"}

\* the application stays idle for more than a day
Sleep ==
    /\ now + SleepMinutes <= MaxSleeps * SleepMinutes
    /\ now' = now + SleepMinutes
    /\ ret' = [op |-> "sleep"]
    /\ UNCHANGED extVars
    /\ UNCHANGED <<detection_events, alerts, last_alert_times,
                   global_history, employee_histories, stress_events>>

\* The metrics of the dashboard over samples of different days
NextMetrics ==
    \/ Sleep
    \/ /\ Len(global_history) < MaxMetricSamples
       /\ \E em \in MetricEmotions, e \in CalcScopes : AddEmotion(em, e, 90)
    \/ \E e \in Scopes : GetMetrics(e)

SpecMetrics == Init /\ [][NextMetrics]_vars

----------------------------------------------------------------------------
(* The report generator on its own *)

MaxReportEvents == 3
MaxReports == 1

\* Database.add_detection called with one event stamped now, with the label
\* and the optional stress level of the event
AddDetectionEvent(employee_id, emotion, stress_level) ==
    /\ detection_events' =
          add_detection_rows(detection_events,
                             [employee_id |-> employee_id, timestamp |-> now,
                              stress_level |-> stress_level, emotion |-> emotion],
                             TRUE)
    /\ ret' = [op |-> "add_detection"]
    /\ UNCHANGED extVars
    /\ UNCHANGED <<now, alerts, last_alert_times, global_history,
                   employee_histories, stress_events>>

\* MainWindow.generate_periodic_report -> ReportGenerator.generate_report
GenerateReport(okSave) ==
    LET st == generate_report(okSave)
    IN  /\ Len(reports) < MaxReports
        /\ reports' = st.reports
        /\ ret' = [op |-> "generate_report", okSave |-> okSave,
                   result |-> st.result]
        /\ UNCHANGED otherVars
        /\ UNCHANGED <<now, detection_events, alerts, last_alert_times,
                       global_history, employee_histories, stress_events,
                       hash_order, registryVars, threadVars>>

\* ReportGenerator.get_latest_report
GetLatestReport(ok) ==
    /\ \E r \in get_latest_report(reports, ok) :
           ret' = [op |-> "get_latest_report", result |-> r]
    /\ UNCHANGED extVars
    /\ UNCHANGED <<now, detection_events, alerts, last_alert_times,
                   global_history, employee_histories, stress_events>>

\* the events of the report runs: subject, label, stress level
ReportInputs ==
    {<<"E1", "happy", 0>>, <<"E1", "sad", 8000>>, <<"E1", "neutral", NoLevel>>,
     <<None, "sad", 8000>>}

\* a process starts with one of the iteration orders of its string sets
InitReport ==
    /\ now = 0
    /\ detection_events = <<>>
    /\ alerts = <<>>
    /\ last_alert_times = <<>>
    /\ global_history = <<>>
    /\ employee_histories = <<>>
    /\ stress_events = <<>>
    /\ reports = <<>>
    /\ hash_order \in HashOrders
    /\ InitRegistry
    /\ InitThreads
    /\ InitOther
    /\ ret = [op |-> "init"]

NextReport ==
    \/ Tick
    \/ /\ Len(detection_events) < MaxReportEvents
       /\ \E d \in ReportInputs : AddDetectionEvent(d[1], d[2], d[3])
    \/ Evaluate(None, TRUE, TRUE)
    \/ \E okSave \in BOOLEAN : GenerateReport(okSave)
    \/ \E ok \in BOOLEAN : GetLatestReport(ok)

SpecReport == InitReport /\ [][NextReport]_vars

----------------------------------------------------------------------------
(* The face recognizer on its own *)

\* enroll_employee called with the samples of one capture session
Enroll(employee_id, sample_embeddings, failAt) ==
    LET st == enroll_employee(employee_id, sample_embeddings, failAt)
    IN  /\ embeddings_cache' = st.cache
        /\ enrollment_files' = st.files
        /\ ret' = [op |-> "enroll", employee_id |-> employee_id,
                   samples |-> sample_embeddings, failAt |-> failAt,
                   result |-> st.result]
        /\ UNCHANGED otherVars
        /\ UNCHANGED <<now, detection_events, alerts, last_alert_times,
                       global_history, employee_histories, stress_events,
                       reportVars, recognition_threshold, threadVars>>

\* recognize_face called on one face of a frame
RecognizeFace(query_embedding) ==
    /\ ret' = [op |-> "recognize_face", query |-> query_embedding,
               result |-> recognize_face(query_embedding)]
    /\ UNCHANGED extVars
    /\ UNCHANGED <<now, detection_events, alerts, last_alert_times,
                   global_history, employee_histories, stress_events>>

\* the embeddings of the samples of one enrollment (None for a sample whose
\* embedding failed) and the embeddings of the faces to recognize
SampleLists ==
    {<<<<1, 0>>, <<1, 0>>>>,
     <<<<1, 0>>, NoEmbedding, <<1, 0>>>>,
     <<<<1, 0>>, <<0, 1>>, <<1, 0>>>>,
     <<<<1, 0>>, <<1, 0>>, <<1, 0>>>>,
     <<<<0, 1>>, <<0, 1>>, <<0, 1>>, NoEmbedding>>,
     <<<<1, 0>>, <<3, 4>>, <<1, 0>>>>}
Queries == {<<1, 0>>, <<0, 1>>, <<-1, 0>>, <<1, 1>>, <<0, 0>>, NoEmbedding}

InitRecognizer ==
    /\ now = 0
    /\ detection_events = <<>>
    /\ alerts = <<>>
    /\ last_alert_times = <<>>
    /\ global_history = <<>>
    /\ employee_histories = <<>>
    /\ stress_events = <<>>
    /\ reports = <<>>
    /\ hash_order = <<"happy", "sad", "neutral", "angry">>
    /\ embeddings_cache = <<>>
    /\ enrollment_files = [e \in Employees |-> [state |-> "absent"]]
    /\ recognition_threshold \in Thresholds
    /\ InitThreads
    /\ InitOther
    /\ ret = [op |-> "init"]

NextRecognizer ==
    \/ \E e \in Employees, s \in SampleLists, f \in FailPoints : Enroll(e, s, f)
    \/ \E q \in Queries : RecognizeFace(q)

SpecRecognizer == InitRecognizer /\ [][NextRecognizer]_vars

----------------------------------------------------------------------------
(* The threads of the application: the VideoThread and the GUI thread *)

MaxQueue == 2

\* as many detections as one alert needs
MaxThreadDetections == alert_threshold

\* the detections processed before the runs start: one fewer than the index
\* needs to be other than 0
WarmUp == MinHistory - 1

\* a handler in progress: what runs, where it is, and its local variables
Frame(kind, pc, detections, employee_id, alert) ==
    [kind |-> kind, pc |-> pc, detections |-> detections,
     employee_id |-> employee_id, alert |-> alert]

\* the first frame of the slot an event is delivered to
SlotFrame(event) ==
    IF event.kind = "frame"
    THEN Frame("frame", "add", event.detections, None, <<>>)
    ELSE IF event.kind = "check_alerts"
    THEN Frame("check_alerts", "check", <<>>, None, <<>>)
    ELSE Frame("report", "run", <<>>, None, <<>>)

Top(t) == stacks[t][Len(stacks[t])]
SetTop(t, frame) == [stacks EXCEPT ![t] = [@ EXCEPT ![Len(@)] = frame]]
Pop(t) == [stacks EXCEPT ![t] = SubSeq(@, 1, Len(@) - 1)]
Running(t, kind, pc) ==
    stacks[t] # <<>> /\ Top(t).kind = kind /\ Top(t).pc = pc

\* a signal whose slot is called by the emitting thread (a direct connection)
emit_frame_ready_direct(st, detections) ==
    [st EXCEPT !.stacks["capture"] =
        Append(@, SlotFrame([kind |-> "frame", detections |-> detections]))]

\* frame_ready.emit in VideoThread.run: the receiver lives in the GUI thread
\* and the connection is the default one, so the call is posted to the event
\* loop of the GUI thread
emit_frame_ready(st, detections) ==
    [st EXCEPT !.queue =
        Append(@, [kind |-> "frame", detections |-> detections])]

\* an event loop that also delivers events while a handler is running
MayDispatch_nested(stack) == Len(stack) < 2

\* the event loop of the GUI thread takes the next event when the handler of
\* the previous one has returned (no handler enters a nested event loop)
MayDispatch(stack) == stack = <<>>

RECURSIVE PendingIn(_)
\* the detections carried by a list of events or frames
PendingIn(items) ==
    IF items = <<>> THEN 0
    ELSE (IF items[1].kind = "frame" THEN Len(items[1].detections) ELSE 0)
         + PendingIn(Tail(items))

\* VideoThread.run, one iteration: the faces of the frame are analysed and
\* recognised on the capture thread and the result is emitted
CaptureEmit(detections) ==
    LET st == emit_frame_ready([queue |-> event_queue, stacks |-> stacks],
                               detections)
    IN  /\ stacks["capture"] = <<>>
        /\ Len(event_queue) < MaxQueue
        /\ Len(detection_events) + PendingIn(event_queue)
              + PendingIn(stacks["main"]) + Len(detections)
                 <= WarmUp + MaxThreadDetections
        /\ event_queue' = st.queue
        /\ stacks' = st.stacks
        /\ ret' = [op |-> "emit", thread |-> "capture"]
        /\ UNCHANGED otherVars
        /\ UNCHANGED <<now, detection_events, alerts, last_alert_times,
                       global_history, employee_histories, stress_events,
                       reportVars, registryVars>>

\* alert_timer / report_timer time out: the timeout is an event of the GUI
\* thread's event loop
TimerTimeout(kind) ==
    /\ Len(event_queue) < MaxQueue
    /\ event_queue' = Append(event_queue, [kind |-> kind, detections |-> <<>>])
    /\ ret' = [op |-> "timeout", thread |-> "main"]
    /\ UNCHANGED otherVars
    /\ UNCHANGED <<now, detection_events, alerts, last_alert_times,
                   global_history, employee_histories, stress_events,
                   reportVars, registryVars, stacks>>

\* the event loop delivers the next event: the slot starts
Dispatch ==
    /\ event_queue # <<>>
    /\ MayDispatch(stacks["main"])
    /\ stacks' = [stacks EXCEPT !["main"] = Append(@, SlotFrame(event_queue[1]))]
    /\ event_queue' = Tail(event_queue)
    /\ ret' = [op |-> "dispatch", thread |-> "main"]
    /\ UNCHANGED otherVars
    /\ UNCHANGED <<now, detection_events, alerts, last_alert_times,
                   global_history, employee_histories, stress_events,
                   reportVars, registryVars>>

\* process_detections, loop head and add_emotion of the next detection
ProcessAdd(t) ==
    /\ Running(t, "frame", "add")
    /\ IF Top(t).detections = <<>>
       THEN /\ stacks' = Pop(t)
            /\ UNCHANGED <<global_history, employee_histories>>
       ELSE LET d == Top(t).detections[1]
                agg == add_emotion(Agg, d.emotion, d.employee_id, d.confidence)
            IN  /\ global_history' = agg.g
                /\ employee_histories' = agg.e
                /\ stacks' = SetTop(t, [Top(t) EXCEPT !.pc = "store"])
    /\ ret' = [op |-> "add_emotion", thread |-> t]
    /\ UNCHANGED otherVars
    /\ UNCHANGED <<now, detection_events, alerts, last_alert_times,
                   stress_events, reportVars, registryVars, event_queue>>

\* a loop that stops at the first detection whose write failed
ProcessStore_halts(t, ok) ==
    /\ Running(t, "frame", "store")
    /\ LET d == Top(t).detections[1]
           stress_level == calculate_stress_index(Agg, d.employee_id, 0)
       IN  /\ detection_events' =
                 add_detection_rows(detection_events,
                                    [employee_id |-> d.employee_id,
                                     timestamp |-> now,
                                     stress_level |-> stress_level,
                                     emotion |-> d.emotion],
                                    ok)
           /\ stacks' = IF ok
                        THEN SetTop(t, [Top(t) EXCEPT !.pc = "add",
                                                      !.detections = Tail(@)])
                        ELSE Pop(t)
    /\ ret' = [op |-> "add_detection", thread |-> t, ok |-> ok]
    /\ UNCHANGED otherVars
    /\ UNCHANGED <<now, alerts, last_alert_times, global_history,
                   employee_histories, stress_events, reportVars, registryVars,
                   event_queue>>

\* process_detections, the rest of the loop body: the stress level of the
\* event is calculate_stress_index / 100.0 (the index in hundredths of a
\* percent is the level in ten-thousandths), and the event is stored
ProcessStore(t, ok) ==
    /\ Running(t, "frame", "store")
    /\ LET d == Top(t).detections[1]
           stress_level == calculate_stress_index(Agg, d.employee_id, 0)
       IN  /\ detection_events' =
                 add_detection_rows(detection_events,
                                    [employee_id |-> d.employee_id,
                                     timestamp |-> now,
                                     stress_level |-> stress_level,
                                     emotion |-> d.emotion],
                                    ok)
           /\ stacks' = SetTop(t, [Top(t) EXCEPT !.pc = "add",
                                                 !.detections = Tail(@)])
    /\ ret' = [op |-> "add_detection", thread |-> t, ok |-> ok]
    /\ UNCHANGED otherVars
    /\ UNCHANGED <<now, alerts, last_alert_times, global_history,
                   employee_histories, stress_events, reportVars, registryVars,
                   event_queue>>

\* check_and_generate_alerts up to the cooldown check: the window query, the
\* threshold and _can_generate_alert; the alert is built when both hold
EvalCheck(t, employee_id) ==
    /\ Running(t, "check_alerts", "check")
    /\ LET window_start == now - alert_window_minutes
           detections == get_detections(employee_id, window_start, QueryLimit)
           stress_detections == stress_detections_of(detections)
           alert_key == HighStressKey(employee_id)
       IN  stacks' =
             SetTop(t, IF Len(stress_detections) >= alert_threshold
                          /\ _can_generate_alert(last_alert_times, alert_key)
                       THEN Frame("check_alerts", "write", <<>>, employee_id,
                                  <<_create_high_stress_alert(employee_id,
                                                              stress_detections)>>)
                       ELSE Frame("check_alerts", "fatigue", <<>>, employee_id, <<>>))
    /\ ret' = [op |-> "evaluate_check", thread |-> t]
    /\ UNCHANGED otherVars
    /\ UNCHANGED <<now, detection_events, alerts, last_alert_times,
                   global_history, employee_histories, stress_events,
                   reportVars, registryVars, event_queue>>

\* self.db.add_alert(alert): without an id the cooldown is not updated
EvalWrite(t, ok) ==
    /\ Running(t, "check_alerts", "write")
    /\ alerts' = add_alert_rows(alerts, Top(t).alert[1], ok)
    /\ stacks' = SetTop(t, [Top(t) EXCEPT !.pc =
                              IF TruthyNum(add_alert_id(alerts, ok))
                              THEN "stamp" ELSE "fatigue"])
    /\ ret' = [op |-> "evaluate_write", thread |-> t]
    /\ UNCHANGED otherVars
    /\ UNCHANGED <<now, detection_events, last_alert_times, global_history,
                   employee_histories, stress_events, reportVars, registryVars,
                   event_queue>>

\* self.last_alert_times[alert_key] = datetime.now()
EvalStamp(t) ==
    /\ Running(t, "check_alerts", "stamp")
    /\ last_alert_times' = SetTime(last_alert_times, HighStressKey(Top(t).employee_id))
    /\ stacks' = SetTop(t, [Top(t) EXCEPT !.pc = "fatigue"])
    /\ ret' = [op |-> "evaluate_stamp", thread |-> t]
    /\ UNCHANGED otherVars
    /\ UNCHANGED <<now, detection_events, alerts, global_history,
                   employee_histories, stress_events, reportVars, registryVars,
                   event_queue>>

\* _check_fatigue and the return of check_and_generate_alerts
EvalFatigue(t, ok) ==
    /\ Running(t, "check_alerts", "fatigue")
    /\ LET st == _check_fatigue([tbl |-> alerts, times |-> last_alert_times,
                                 out |-> <<>>, failed |-> {}],
                                Top(t).employee_id, ok)
       IN  /\ alerts' = st.tbl
           /\ last_alert_times' = st.times
    /\ stacks' = Pop(t)
    /\ ret' = [op |-> "evaluate_fatigue", thread |-> t]
    /\ UNCHANGED otherVars
    /\ UNCHANGED <<now, detection_events, global_history, employee_histories,
                   stress_events, reportVars, registryVars, event_queue>>

\* generate_periodic_report
ReportRun(t, okSave) ==
    /\ Running(t, "report", "run")
    /\ reports' = IF Len(reports) < MaxReports
                  THEN generate_report(okSave).reports ELSE reports
    /\ stacks' = Pop(t)
    /\ ret' = [op |-> "generate_report", thread |-> t, okSave |-> okSave,
               result |-> NoReport]
    /\ UNCHANGED otherVars
    /\ UNCHANGED <<now, detection_events, alerts, last_alert_times,
                   global_history, employee_histories, stress_events,
                   hash_order, registryVars, event_queue>>

\* the detections of one frame: one or two faces with high-stress emotions
FrameDetections ==
    LET face(e) == [emotion |-> "angry", employee_id |-> e, confidence |-> 90]
    IN  {<<face("E1")>>, <<face("E1"), face(None)>>}

CheckScopes == {None, "E1"}

NextThreads ==
    \/ Tick
    \/ \E detections \in FrameDetections : CaptureEmit(detections)
    \/ \E kind \in {"check_alerts", "report"} : TimerTimeout(kind)
    \/ Dispatch
    \/ \E t \in Threads : ProcessAdd(t)
    \/ \E t \in Threads : ProcessStore(t, TRUE)
    \/ \E t \in Threads, e \in CheckScopes : EvalCheck(t, e)
    \/ \E t \in Threads, ok \in BOOLEAN : EvalWrite(t, ok)
    \/ \E t \in Threads : EvalStamp(t)
    \/ \E t \in Threads : EvalFatigue(t, TRUE)
    \/ \E t \in Threads : ReportRun(t, TRUE)

\* the application after WarmUp 'angry' detections of E1 were processed at
\* time 0: their samples are in the windows, their events (with the stress
\* level 0.0 of a short history) in the store
InitWarm ==
    /\ now = 0
    /\ detection_events =
          [i \in 1..WarmUp |-> [employee_id |-> "E1", timestamp |-> 0,
                                stress_level |-> 0, emotion |-> "angry"]]
    /\ alerts = <<>>
    /\ last_alert_times = <<>>
    /\ global_history = Block(WarmUp, "angry")
    /\ employee_histories = [k \in {"E1"} |-> Block(WarmUp, "angry")]
    /\ stress_events = <<>>
    /\ InitExt
    /\ ret = [op |-> "init"]

SpecThreads == InitWarm /\ [][NextThreads]_vars

----------------------------------------------------------------------------
(* The frame loop of the VideoThread and the processing of its frames *)

frame_skip == 3
MaxFrames == 5

\* VideoThread.run, one iteration of the loop: every frame_skip-th frame is
\* analysed (one observation per face) and replaces last_detections; every
\* frame emits frame_ready with last_detections
CaptureFrame(faces) ==
    LET count == frame_count + 1
        analysed == count % frame_skip = 0
        detections == IF analysed THEN faces ELSE last_detections
        st == emit_frame_ready([queue |-> event_queue, stacks |-> stacks],
                               detections)
    IN  /\ frame_count < MaxFrames
        /\ stacks["capture"] = <<>>
        /\ Len(event_queue) < MaxQueue
        /\ frame_count' = count
        /\ last_detections' = detections
        /\ observed' = IF analysed THEN observed + Len(faces) ELSE observed
        /\ event_queue' = st.queue
        /\ stacks' = st.stacks
        /\ ret' = [op |-> "frame", thread |-> "capture", analysed |-> analysed]
        /\ UNCHANGED <<now, detection_events, alerts, last_alert_times,
                       global_history, employee_histories, stress_events,
                       reportVars, registryVars, config>>

\* the faces of one frame, as the observations their analysis gives
FrameFaces ==
    {<<>>,
     <<[emotion |-> "sad", employee_id |-> "E1", confidence |-> 90]>>,
     <<[emotion |-> "sad", employee_id |-> "E1", confidence |-> 90],
       [emotion |-> "happy", employee_id |-> None, confidence |-> 80]>>}

NextCapture ==
    \/ \E faces \in FrameFaces : CaptureFrame(faces)
    \/ Dispatch
    \/ \E t \in Threads : ProcessAdd(t)
    \/ \E t \in Threads, ok \in BOOLEAN : ProcessStore(t, ok)

SpecCapture == Init /\ [][NextCapture]_vars

----------------------------------------------------------------------------
(* Event Store reads that fail *)

MaxReadEvents == 3

\* check_and_generate_alerts when Database.get_detections may raise: the
\* query runs outside any try block, in the database and in the caller, so
\* its exception leaves check_and_generate_alerts
evaluate_outcome(employee_id, okRead) ==
    IF okRead
    THEN [raised |-> FALSE,
          st |-> check_and_generate_alerts(employee_id, TRUE, TRUE)]
    ELSE [raised |-> TRUE,
          st |-> [tbl |-> alerts, times |-> last_alert_times,
                  out |-> <<>>, failed |-> {}]]

\* generate_report when get_detections or get_alerts may raise: neither call
\* is inside a try block, and get_alerts is reached only with detections
generate_outcome(okDetections, okAlerts) ==
    IF ~okDetections
    THEN [raised |-> TRUE, reports |-> reports, result |-> NoReport]
    ELSE IF generate_report(TRUE).result = NoReport
    THEN [raised |-> FALSE, reports |-> reports, result |-> NoReport]
    ELSE IF ~okAlerts
    THEN [raised |-> TRUE, reports |-> reports, result |-> NoReport]
    ELSE [raised |-> FALSE, reports |-> generate_report(TRUE).reports,
          result |-> generate_report(TRUE).result]

\* MainWindow.check_alerts, the slot of alert_timer
CheckAlertsTick(employee_id, okRead) ==
    LET o == evaluate_outcome(employee_id, okRead)
    IN  /\ alerts' = o.st.tbl
        /\ last_alert_times' = o.st.times
        /\ ret' = [op |-> "check_alerts", okRead |-> okRead,
                   raised |-> o.raised, alerts |-> o.st.out]
        /\ UNCHANGED extVars
        /\ UNCHANGED <<now, detection_events, global_history,
                       employee_histories, stress_events>>

\* MainWindow.generate_periodic_report, the slot of report_timer
ReportTick(okDetections, okAlerts) ==
    LET o == generate_outcome(okDetections, okAlerts)
    IN  /\ Len(reports) < MaxReports
        /\ reports' = o.reports
        /\ ret' = [op |-> "generate_periodic_report",
                   okRead |-> okDetections /\ okAlerts,
                   raised |-> o.raised, result |-> o.result]
        /\ UNCHANGED <<now, detection_events, alerts, last_alert_times,
                       global_history, employee_histories, stress_events,
                       hash_order, registryVars, threadVars, otherVars>>

NextRead ==
    \/ Tick
    \/ /\ Len(detection_events) < MaxReadEvents
       /\ AddDetectionEvent("E1", "sad", 8000)
    \/ \E okRead \in BOOLEAN : CheckAlertsTick(None, okRead)
    \/ \E okDetections \in BOOLEAN, okAlerts \in BOOLEAN :
           ReportTick(okDetections, okAlerts)

SpecRead == Init /\ [][NextRead]_vars

----------------------------------------------------------------------------
(* Construction with a configuration *)

MaxConfigEvents == 2

\* AlertManager.__init__: the three values are stored as given, none is
\* checked
AlertManager_init(threshold, window_minutes, cooldown) ==
    [alert_threshold |-> threshold,
     alert_window_minutes |-> window_minutes,
     cooldown_minutes |-> cooldown]

\* _can_generate_alert with the cooldown of the instance
_can_generate_alert_of(cfg, times, alert_key) ==
    IF alert_key \notin DOMAIN times THEN TRUE
    ELSE now - times[alert_key] >= cfg.cooldown_minutes

\* The high-stress branch of check_and_generate_alerts read with the values
\* of the instance. avg_stress of _create_high_stress_alert divides by
\* len(stress_detections): with no stress detection the division raises
\* ZeroDivisionError, which nothing catches.
high_stress_branch_of(cfg, st, employee_id) ==
    LET window_start == now - cfg.alert_window_minutes
        detections == get_detections(employee_id, window_start, QueryLimit)
        stress_detections == stress_detections_of(detections)
        alert_key == HighStressKey(employee_id)
        alert == _create_high_stress_alert(employee_id, stress_detections)
    IN  IF Len(stress_detections) >= cfg.alert_threshold
           /\ _can_generate_alert_of(cfg, st.times, alert_key)
        THEN IF stress_detections = <<>>
             THEN [raised |-> TRUE, st |-> st]
             ELSE [raised |-> FALSE,
                   st |-> [tbl    |-> add_alert_rows(st.tbl, alert, TRUE),
                           times  |-> SetTime(st.times, alert_key),
                           out    |-> Append(st.out,
                                        [alert EXCEPT !.alert_id = add_alert_id(st.tbl, TRUE)]),
                           failed |-> st.failed]]
        ELSE [raised |-> FALSE, st |-> st]

\* MainWindow.__init__ builds the AlertManager; once, before any other call
Construct(threshold, window_minutes, cooldown) ==
    /\ ret.op = "init"
    /\ config' = AlertManager_init(threshold, window_minutes, cooldown)
    /\ ret' = [op |-> "construct"]
    /\ UNCHANGED <<now, detection_events, alerts, last_alert_times,
                   global_history, employee_histories, stress_events,
                   reportVars, registryVars, threadVars, captureVars>>

\* check_and_generate_alerts of the constructed instance. The windows of the
\* aggregator are empty in this specification, so the fatigue branch that
\* follows finds nothing to do.
EvaluateConfigured(employee_id) ==
    LET st0 == [tbl |-> alerts, times |-> last_alert_times,
                out |-> <<>>, failed |-> {}]
        o == high_stress_branch_of(config, st0, employee_id)
    IN  /\ ret.op # "init"
        /\ Len(alerts) < MaxAlerts
        /\ alerts' = o.st.tbl
        /\ last_alert_times' = o.st.times
        /\ ret' = [op |-> "evaluate", employee_id |-> employee_id,
                   alerts |-> o.st.out, failed |-> o.st.failed,
                   raised |-> o.raised]
        /\ UNCHANGED extVars
        /\ UNCHANGED <<now, detection_events, global_history,
                       employee_histories, stress_events>>

ConfigThresholds == {0 - 1, 0, alert_threshold}
ConfigWindows == {0 - alert_window_minutes, 0, alert_window_minutes}
ConfigCooldowns == {0 - cooldown_minutes, 0, cooldown_minutes}

NextConfig ==
    \/ \E a \in ConfigThresholds, w \in ConfigWindows, c \in ConfigCooldowns :
           Construct(a, w, c)
    \/ /\ ret.op # "init"
       /\ Tick
    \/ /\ ret.op # "init"
       /\ Len(detection_events) < MaxConfigEvents
       /\ AddDetection("E1", 8000, TRUE)
    \/ EvaluateConfigured(None)

SpecConfig == Init /\ [][NextConfig]_vars

----------------------------------------------------------------------------
(* The list of pending alerts *)

PendingLimits == {1, 2}

\* a query that sorts oldest first
get_alerts_by_oldest_first(status, employee_id, limit) ==
    LET Match(a) == /\ (Truthy(status) => a.status = status)
                    /\ (Truthy(employee_id) => a.employee_id = employee_id)
        rows == SelectSeq(alerts, Match)
    IN  SubSeq(rows, 1, Min(limit, Len(rows)))

\* Database.get_alerts(status, employee_id, limit): WHERE status = ? and
\* employee_id = ? (each only for a truthy argument) ORDER BY timestamp DESC
\* LIMIT ?. Rows are inserted with nondecreasing timestamps, so the reverse
\* insertion order is a descending timestamp order.
get_alerts_by(status, employee_id, limit) ==
    LET Match(a) == /\ (Truthy(status) => a.status = status)
                    /\ (Truthy(employee_id) => a.employee_id = employee_id)
        rows == Reverse(SelectSeq(alerts, Match))
    IN  SubSeq(rows, 1, Min(limit, Len(rows)))

\* AlertManager.get_pending_alerts
get_pending_alerts(limit) == get_alerts_by("pending", None, limit)

GetPendingAlerts(limit) ==
    /\ ret' = [op |-> "get_pending_alerts", limit |-> limit,
               result |-> get_pending_alerts(limit)]
    /\ UNCHANGED extVars
    /\ UNCHANGED <<now, detection_events, alerts, last_alert_times,
                   global_history, employee_histories, stress_events>>

NextPending ==
    \/ Tick
    \/ /\ Len(detection_events) < MaxCooldownDetections
       /\ AddDetection("E1", 9000, TRUE)
    \/ \E e \in {None, "E1"} : Evaluate(e, TRUE, TRUE)
    \/ \E id \in 1..MaxAlerts : Acknowledge(id, "u1", TRUE)
    \/ \E id \in 1..MaxAlerts : Resolve(id, "u1", TRUE)
    \/ \E limit \in PendingLimits : GetPendingAlerts(limit)

SpecPending == Init /\ [][NextPending]_vars

----------------------------------------------------------------------------
(* Samples of a failed analysis *)

MaxNeutralAdds == 2
FatigueWarm == FatigueMin - 1
NeutralWarm == FatigueNeutralMin - FatigueMin

\* the windows one neutral sample short of the fatigue rule
WarmFatigue == Block(FatigueWarm, "fatigue") \o Block(NeutralWarm, "neutral")

InitNeutral ==
    /\ now = 0
    /\ detection_events = <<>>
    /\ alerts = <<>>
    /\ last_alert_times = <<>>
    /\ stress_events = <<>>
    /\ InitExt
    /\ global_history = WarmFatigue
    /\ employee_histories = [k \in {"E1"} |-> WarmFatigue]
    /\ ret = [op |-> "init"]

\* EmotionAnalyzer.analyze_face: the result of an analysis, or neutral with
\* confidence 0.0 when the analysis raised
AnalysisResults ==
    {[emotion |-> "neutral", confidence |-> 0],
     [emotion |-> "neutral", confidence |-> 80],
     [emotion |-> "sad", confidence |-> 90]}

NextNeutral ==
    \/ Tick
    \/ /\ Len(global_history) < Len(WarmFatigue) + MaxNeutralAdds
       /\ \E r \in AnalysisResults, e \in {None, "E1"} :
             AddEmotion(r.emotion, e, r.confidence)
    \/ \E e \in {None, "E1"} : CalculateStressIndex(e, 0)
    \/ \E e \in {None, "E1"} : Evaluate(e, TRUE, TRUE)

SpecNeutral == InitNeutral /\ [][NextNeutral]_vars

----------------------------------------------------------------------------
(* Cooldown keys of several scopes *)

\* employee_id is free text (scripts/enroll_employee.py takes it from the
\* command line): a subject may be called "global"
KeyScopes == {None, "E1", "global"}

NextKeys ==
    \/ Tick
    \/ /\ Len(detection_events) < MaxCooldownDetections
       /\ \E e \in KeyScopes \ {None} : AddDetection(e, 9000, TRUE)
    \/ \E e \in KeyScopes : Evaluate(e, TRUE, TRUE)

SpecKeys == Init /\ [][NextKeys]_vars

----------------------------------------------------------------------------
(* The stress event log and clear_history *)

\* a clear that empties the log of stress events with the windows
clear_history_with_log(agg, events, employee_id) ==
    IF Truthy(employee_id)
    THEN [agg |-> [g |-> agg.g,
                   e |-> [k \in DOMAIN agg.e |->
                            IF k = employee_id THEN <<>> ELSE agg.e[k]]],
          events |-> SelectSeq(events, LAMBDA ev : ev.employee_id # employee_id)]
    ELSE [agg |-> [g |-> <<>>, e |-> <<>>], events |-> <<>>]

\* StressCalculator.clear_history: the deque of a known subject is emptied
\* and stays in the dict; without a subject the global deque and the dict
\* are emptied. self.stress_events is not touched.
clear_history(agg, events, employee_id) ==
    IF Truthy(employee_id)
    THEN [agg |-> [g |-> agg.g,
                   e |-> [k \in DOMAIN agg.e |->
                            IF k = employee_id THEN <<>> ELSE agg.e[k]]],
          events |-> events]
    ELSE [agg |-> [g |-> <<>>, e |-> <<>>], events |-> events]

ClearHistory(employee_id) ==
    LET r == clear_history(Agg, stress_events, employee_id)
    IN  /\ global_history' = r.agg.g
        /\ employee_histories' = r.agg.e
        /\ stress_events' = r.events
        /\ ret' = [op |-> "clear_history", employee_id |-> employee_id]
        /\ UNCHANGED extVars
        /\ UNCHANGED <<now, detection_events, alerts, last_alert_times>>

\* The aggregator with its log: samples, threshold checks, metrics and
\* clears in any order
NextLog ==
    \/ /\ Len(global_history) < MaxCalcSamples
       /\ \E e \in CalcScopes : AddEmotion("angry", e, 90)
    \/ /\ Len(stress_events) < MaxStressEvents
       /\ \E th \in CalcThresholds, e \in CalcScopes : CheckStressThreshold(th, e)
    \/ \E e \in CalcScopes : GetMetrics(e)
    \/ \E e \in CalcScopes : ClearHistory(e)

SpecLog == Init /\ [][NextLog]_vars

----------------------------------------------------------------------------
(* Vocabulary of the properties *)

\* the scope an event or alert belongs to matches the scope evaluated
InScope(row, scope) == scope = None \/ row.employee_id = scope

\* the detection events of the scope inside the alert window with a stress
\* level strictly above 0.7
HighEvents(scope) ==
    {i \in 1..Len(detection_events) :
        /\ InScope(detection_events[i], scope)
        /\ detection_events[i].timestamp >= now - alert_window_minutes
        /\ detection_events[i].stress_level > 7000}

\* the trigger condition of the high-stress alert
Triggered(scope) == Cardinality(HighEvents(scope)) >= alert_threshold

\* the alerts of one type among a sequence of alerts
OfType(rows, type) == {i \in 1..Len(rows) : rows[i].alert_type = type}

\* the cooldown key (alert_type, scope) of an alert
SameKey(a, b) == a.alert_type = b.alert_type /\ a.employee_id = b.employee_id

TypeOfKey(key) ==
    IF key[1] = "high_stress" THEN "high_stress_prolonged" ELSE "fatigue_detected"

\* the cooldown of a key has elapsed in the current state
Eligible(key) ==
    \/ key \notin DOMAIN last_alert_times
    \/ now - last_alert_times[key] >= cooldown_minutes

EvaluateStep == ret'.op = "evaluate" /\ vars' # vars

----------------------------------------------------------------------------
\* C1: after an alert of a key was created at time T, no alert of the same
\* key is created before T + cooldown_minutes, although the trigger condition
\* holds at every evaluation in between; with alert_threshold high-stress
\* events in the window and no cooldown entry, an evaluate whose write
\* succeeds creates exactly one high_stress_prolonged alert, and a repeated
\* evaluate right after it creates none.
C1_NoTwoWithinCooldown ==
    \A i \in 1..Len(alerts), j \in 1..Len(alerts) :
        (i < j /\ SameKey(alerts[i], alerts[j]))
            => alerts[j].timestamp - alerts[i].timestamp >= cooldown_minutes

C1_FirstFires ==
    (/\ EvaluateStep
     /\ Triggered(ret'.employee_id)
     /\ HighStressKey(ret'.employee_id) \notin DOMAIN last_alert_times
     /\ HighStressKey(ret'.employee_id) \notin ret'.failed)
        => /\ Cardinality(OfType(ret'.alerts, "high_stress_prolonged")) = 1
           /\ Cardinality(OfType(alerts', "high_stress_prolonged"))
                 = Cardinality(OfType(alerts, "high_stress_prolonged")) + 1

C1_RepeatFiresNone ==
    (/\ EvaluateStep
     /\ ret.op = "evaluate"
     /\ ret.employee_id = ret'.employee_id
     /\ OfType(ret.alerts, "high_stress_prolonged") # {})
        => /\ OfType(ret'.alerts, "high_stress_prolonged") = {}
           /\ OfType(alerts', "high_stress_prolonged")
                 = OfType(alerts, "high_stress_prolonged")

C1_CooldownSuppression ==
    /\ []C1_NoTwoWithinCooldown
    /\ [][C1_FirstFires /\ C1_RepeatFiresNone]_vars

\* an evaluate later than the firing, inside the cooldown and with the trigger
\* condition holding, created nothing
C1_Witness ==
    /\ ret.op = "evaluate"
    /\ ret.alerts = <<>>
    /\ ret.failed = {}
    /\ Triggered(ret.employee_id)
    /\ HighStressKey(ret.employee_id) \in DOMAIN last_alert_times
    /\ now > last_alert_times[HighStressKey(ret.employee_id)]
    /\ now < last_alert_times[HighStressKey(ret.employee_id)] + cooldown_minutes

----------------------------------------------------------------------------
\* C2: a key without a cooldown entry is eligible at once, and a key last
\* fired at T is eligible again at every time now with now - T >=
\* cooldown_minutes, the boundary included: an evaluate made then, with the
\* trigger condition holding and the write succeeding, creates a new alert of
\* that key.
C2_EligibleFires ==
    (/\ EvaluateStep
     /\ Triggered(ret'.employee_id)
     /\ Eligible(HighStressKey(ret'.employee_id))
     /\ HighStressKey(ret'.employee_id) \notin ret'.failed)
        => /\ \E i \in OfType(ret'.alerts, "high_stress_prolonged") :
                /\ ret'.alerts[i].employee_id = ret'.employee_id
                /\ ret'.alerts[i].timestamp = now
                /\ ret'.alerts[i].alert_id = Len(alerts) + 1
                /\ alerts' = Append(alerts, ret'.alerts[i])
           /\ last_alert_times'[HighStressKey(ret'.employee_id)] = now

C2_CooldownReEligibility == [][C2_EligibleFires]_vars

\* the key fired again exactly cooldown_minutes after its previous alert
C2_Witness ==
    /\ ret.op = "evaluate"
    /\ \E i \in 1..Len(ret.alerts), j \in 1..Len(alerts) :
          /\ ret.alerts[i].alert_type = "high_stress_prolonged"
          /\ SameKey(alerts[j], ret.alerts[i])
          /\ alerts[j].timestamp + cooldown_minutes = now
          /\ ret.alerts[i].timestamp = now

----------------------------------------------------------------------------
\* C3: when the write of the alert fails during evaluate, in the high-stress
\* or in the fatigue branch, the cooldown entry of that key is unchanged, the
\* alert is not in the returned list nor in the store, and the key is
\* eligible on the next evaluate, which creates the alert when its write
\* succeeds.
C3_FailedWriteKeepsEntry ==
    EvaluateStep =>
        \A key \in ret'.failed :
            /\ (key \in DOMAIN last_alert_times') = (key \in DOMAIN last_alert_times)
            /\ key \in DOMAIN last_alert_times
                  => last_alert_times'[key] = last_alert_times[key]
            /\ OfType(ret'.alerts, TypeOfKey(key)) = {}
            /\ OfType(alerts', TypeOfKey(key)) = OfType(alerts, TypeOfKey(key))
            /\ key \notin DOMAIN last_alert_times'
                  \/ now' - last_alert_times'[key] >= cooldown_minutes

C3_RetryFires ==
    (/\ EvaluateStep
     /\ ret.op = "evaluate"
     /\ ret.employee_id = ret'.employee_id)
        => \A key \in ret.failed \ ret'.failed :
              OfType(ret'.alerts, TypeOfKey(key)) # {}

C3_FailedWriteNoCooldown == [][C3_FailedWriteKeepsEntry /\ C3_RetryFires]_vars

\* one evaluate in which the writes of both branches failed
C3_Witness ==
    /\ ret.op = "evaluate"
    /\ ret.failed = {HighStressKey(ret.employee_id), FatigueKey(ret.employee_id)}
    /\ ret.alerts = <<>>

----------------------------------------------------------------------------
(* The alert lifecycle *)

AllowedTransitions ==
    {<<"pending", "acknowledged">>, <<"acknowledged", "resolved">>,
     <<"pending", "resolved">>}

\* the step is a call of op on a stored alert, in which the store did not fail
LifecycleStep(op) ==
    /\ ret'.op = op
    /\ vars' # vars
    /\ ret'.result
    /\ ret'.alert_id \in 1..Len(alerts)

\* C4: resolved is terminal: an alert whose status is resolved keeps that
\* status under every acknowledge and resolve, and every change of status is
\* pending -> acknowledged, acknowledged -> resolved or pending -> resolved.
C4_ResolvedIsTerminal ==
    [][\A i \in 1..Len(alerts) :
          /\ alerts[i].status = "resolved" => alerts'[i].status = "resolved"
          /\ alerts'[i].status # alerts[i].status
                => <<alerts[i].status, alerts'[i].status>> \in AllowedTransitions]_vars

\* C5: a second resolve of a resolved alert returns success and leaves
\* status, resolved_at and resolved_by as the first resolve set them.
C5_ResolveIdempotent ==
    [][(LifecycleStep("resolve") /\ alerts[ret'.alert_id].status = "resolved")
          => alerts' = alerts]_vars

\* C6: resolve on a pending or acknowledged alert sets status = resolved,
\* resolved_at = the current time (not null) and resolved_by = the actor, and
\* touches nothing else.
C6_ResolveStep ==
    (/\ LifecycleStep("resolve")
     /\ alerts[ret'.alert_id].status \in {"pending", "acknowledged"})
        => /\ alerts' = [alerts EXCEPT ![ret'.alert_id] =
                            [@ EXCEPT !.status = "resolved",
                                      !.resolved_at = now,
                                      !.resolved_by = ret'.user_id]]
           /\ alerts'[ret'.alert_id].resolved_at # NoTime
           /\ alerts'[ret'.alert_id].resolved_by \in Users

C6_ResolveSetsFields == [][C6_ResolveStep]_vars

\* an acknowledged alert was resolved, by the actor of the call
C6_Witness ==
    /\ ret.op = "resolve"
    /\ ret.result
    /\ ret.was = "acknowledged"
    /\ alerts[ret.alert_id].status = "resolved"
    /\ alerts[ret.alert_id].resolved_by = ret.user_id
    /\ alerts[ret.alert_id].resolved_at = now

\* C7: acknowledge on a pending alert sets its status to acknowledged, leaves
\* resolved_at null and changes no other alert.
C7_AcknowledgeStep ==
    (/\ LifecycleStep("acknowledge")
     /\ alerts[ret'.alert_id].status = "pending")
        => /\ Len(alerts') = Len(alerts)
           /\ alerts'[ret'.alert_id].status = "acknowledged"
           /\ alerts'[ret'.alert_id].resolved_at = NoTime
           /\ \A j \in 1..Len(alerts) : j # ret'.alert_id => alerts'[j] = alerts[j]

C7_AcknowledgePending == [][C7_AcknowledgeStep]_vars

\* a pending alert was acknowledged while another alert was stored
C7_Witness ==
    /\ ret.op = "acknowledge"
    /\ ret.result
    /\ ret.was = "pending"
    /\ alerts[ret.alert_id].status = "acknowledged"
    /\ alerts[ret.alert_id].resolved_at = NoTime
    /\ Len(alerts) >= 2

----------------------------------------------------------------------------
(* Threshold and severity of the high-stress alert *)

RECURSIVE SumStress(_)
\* the sum of the stress levels of a set of detection events
SumStress(S) ==
    IF S = {} THEN 0
    ELSE LET i == CHOOSE x \in S : TRUE
         IN  detection_events[i].stress_level + SumStress(S \ {i})

\* C8: evaluate(scope) creates a high_stress_prolonged alert only if at least
\* alert_threshold detection events of the scope (of all scopes for the
\* global scope) have timestamp >= now - alert_window_minutes and a stress
\* level strictly above 0.7; no other step creates such an alert.
C8_NewHighStressStep ==
    /\ \A i \in (Len(alerts) + 1)..Len(alerts') :
          alerts'[i].alert_type = "high_stress_prolonged"
             => /\ ret'.op = "evaluate"
                /\ alerts'[i].employee_id = ret'.employee_id
                /\ Cardinality(HighEvents(ret'.employee_id)) >= alert_threshold
    /\ (ret'.op = "evaluate" /\ OfType(ret'.alerts, "high_stress_prolonged") # {})
          => Cardinality(HighEvents(ret'.employee_id)) >= alert_threshold

C8_HighStressOnlyAtThreshold == [][C8_NewHighStressStep]_vars

\* an alert was created on exactly alert_threshold counted events, next to an
\* event of the scope inside the window whose stress level is exactly 0.7
C8_Witness ==
    /\ ret.op = "evaluate"
    /\ OfType(ret.alerts, "high_stress_prolonged") # {}
    /\ Cardinality(HighEvents(ret.employee_id)) = alert_threshold
    /\ \E i \in 1..Len(detection_events) :
          /\ InScope(detection_events[i], ret.employee_id)
          /\ detection_events[i].timestamp >= now - alert_window_minutes
          /\ detection_events[i].stress_level = 7000

----------------------------------------------------------------------------
(* The fatigue rule *)

\* the samples added for the scope itself (None: the global window)
OwnSamples(scope) ==
    IF scope = None THEN global_history
    ELSE IF scope \in DOMAIN employee_histories THEN employee_histories[scope]
    ELSE <<>>

\* how many samples of the last hour carry the label
CountLastHour(samples, label) ==
    Cardinality({i \in 1..Len(samples) :
                    samples[i].timestamp >= now - 60 /\ samples[i].emotion = label})

FatigueRule(samples) ==
    \/ CountLastHour(samples, "fatigue") >= 15
    \/ CountLastHour(samples, "fatigue") + CountLastHour(samples, "neutral") >= 20

\* C10: every evaluate(scope) runs the fatigue check, and creates a
\* fatigue_detected alert (severity medium, stress_level 0.5, status pending)
\* exactly when the rule holds over the scope's samples of the last hour, the
\* cooldown of (fatigue_detected, scope) has elapsed and the write succeeds.
C10_FatigueStep ==
    EvaluateStep =>
        /\ (OfType(ret'.alerts, "fatigue_detected") # {})
              = (/\ FatigueRule(OwnSamples(ret'.employee_id))
                 /\ Eligible(FatigueKey(ret'.employee_id))
                 /\ FatigueKey(ret'.employee_id) \notin ret'.failed)
        /\ \A i \in OfType(ret'.alerts, "fatigue_detected") :
              /\ ret'.alerts[i].severity = "medium"
              /\ ret'.alerts[i].stress_level = [num |-> 5000, den |-> 1]
              /\ ret'.alerts[i].status = "pending"
              /\ ret'.alerts[i].employee_id = ret'.employee_id

C10_FatigueExactlyWhen == [][C10_FatigueStep]_vars

----------------------------------------------------------------------------
(* The result of an evaluation *)

\* C11: evaluate returns exactly the alerts it stored during the call: 0, 1
\* or 2 entries, at most one high_stress_prolonged and at most one
\* fatigue_detected, each pending and carrying the id the store assigned;
\* the alerts table gains exactly those rows, in that order, and no others.
C11_EvaluateStep ==
    EvaluateStep =>
        /\ Len(ret'.alerts) <= 2
        /\ Cardinality(OfType(ret'.alerts, "high_stress_prolonged")) <= 1
        /\ Cardinality(OfType(ret'.alerts, "fatigue_detected")) <= 1
        /\ OfType(ret'.alerts, "high_stress_prolonged")
              \cup OfType(ret'.alerts, "fatigue_detected") = 1..Len(ret'.alerts)
        /\ alerts' = alerts \o ret'.alerts
        /\ \A i \in 1..Len(ret'.alerts) :
              /\ ret'.alerts[i].status = "pending"
              /\ ret'.alerts[i].alert_id = Len(alerts) + i
              /\ ret'.alerts[i].employee_id = ret'.employee_id

C11_ReturnsWhatItStored == [][C11_EvaluateStep]_vars

\* one evaluation stored and returned both kinds of alert
C11_Witness ==
    /\ ret.op = "evaluate"
    /\ Len(ret.alerts) = 2
    /\ ret.alerts[1].alert_type = "high_stress_prolonged"
    /\ ret.alerts[2].alert_type = "fatigue_detected"
    /\ alerts[ret.alerts[2].alert_id] = ret.alerts[2]

----------------------------------------------------------------------------
(* Scopes of the aggregator *)

\* C12: for a subject S, the stress index, the emotion distribution and the
\* fatigue outcome of evaluate(S) depend only on the samples added for S: a
\* step that adds no sample for S (and does not move the clock) changes
\* neither the index nor the distribution of S, and a subject without
\* samples of its own has index 0, an empty distribution and gets no
\* fatigue_detected alert.
C12_OtherSamplesStep ==
    \A S \in Employees :
        (now' = now /\ OwnSamples(S)' = OwnSamples(S))
            => /\ calculate_stress_index(Agg, S, 0)'
                     = calculate_stress_index(Agg, S, 0)
               /\ get_emotion_distribution(Agg, S, FatigueHours)'
                     = get_emotion_distribution(Agg, S, FatigueHours)

C12_NoSamplesNoFatigueStep ==
    (EvaluateStep /\ ret'.employee_id \in Employees
        /\ OwnSamples(ret'.employee_id) = <<>>)
        => OfType(ret'.alerts, "fatigue_detected") = {}

C12_NoSamplesEmpty ==
    \A S \in Employees :
        OwnSamples(S) = <<>>
            => DOMAIN get_emotion_distribution(Agg, S, FatigueHours) = {}

C12_ScopeIsolation ==
    /\ []C12_NoSamplesEmpty
    /\ [][C12_OtherSamplesStep /\ C12_NoSamplesNoFatigueStep]_vars

\* C13: a scope whose own history holds fewer than 5 samples has stress
\* index 0.0, whatever was added to other scopes and whatever the window.
C13_FewSamplesZero ==
    \A scope \in Scopes, w \in CalcWindows :
        Len(OwnSamples(scope)) < 5
            => calculate_stress_index(Agg, scope, w) = 0

----------------------------------------------------------------------------
(* The stress index *)

\* the number of negative samples among the last n samples of a history
NegativesInLast(history, n) ==
    Cardinality({i \in (Len(history) - n + 1)..Len(history) :
                    history[i].emotion \in {"angry", "fear", "sad", "disgust",
                                            "stress_high", "fatigue"}})

\* C14: for a scope with at least 5 samples, stress_index(scope, window) is
\* 100 * negative_count / sample_count rounded to 2 decimals, over the most
\* recent min(window, history length) samples of the scope (window 30 when
\* none is given); 31 samples whose last 30 hold 16 negatives give 53.33.
C14_IndexOverWindow ==
    (/\ ret.op = "calculate_stress_index"
     /\ ret.window >= 0
     /\ Len(OwnSamples(ret.employee_id)) >= 5)
        => LET history == OwnSamples(ret.employee_id)
               window == IF ret.window = 0 THEN 30 ELSE ret.window
               n == Min(window, Len(history))
               negatives == NegativesInLast(history, n)
               error == ret.result * n - negatives * 10000
           IN  /\ 2 * error <= n
               /\ 2 * error >= 0 - n

\* the index of 31 samples whose last 30 hold 16 negatives, the sample
\* outside the window being negative as well, came out as 53.33
C14_Witness ==
    /\ ret.op = "calculate_stress_index"
    /\ ret.employee_id = "E1"
    /\ ret.window \in {0, 30}
    /\ Len(employee_histories["E1"]) = 31
    /\ NegativesInLast(employee_histories["E1"], 30) = 16
    /\ NegativesInLast(employee_histories["E1"], 31) = 17
    /\ ret.result = 5333

\* C15: in every reachable state, for every scope and every window
\* argument, the stress index lies in [0, 100].
C15_IndexInRange ==
    /\ \A scope \in Scopes, w \in IndexWindows :
          /\ calculate_stress_index(Agg, scope, w) >= 0
          /\ calculate_stress_index(Agg, scope, w) <= 10000
    /\ ret.op = "calculate_stress_index"
          => (ret.result >= 0 /\ ret.result <= 10000)

\* an index of exactly 100 over a window that leaves non-negative samples
\* of the history outside
C15_Witness ==
    /\ ret.op = "calculate_stress_index"
    /\ ret.employee_id \in Employees
    /\ ret.result = 10000
    /\ \E i \in 1..Len(employee_histories[ret.employee_id]) :
          employee_histories[ret.employee_id][i].emotion = "neutral"

\* the number of samples a window argument selects from a history
WindowLength(history, w) ==
    IF w < 0 THEN Len(history) - Min(0 - w, Len(history))
    ELSE Min(IF w = 0 THEN 30 ELSE w, Len(history))

\* C16: of two histories of the same length (at least 5) under the same
\* window, the one with no more negative samples among its windowed samples
\* has no greater stress index.
C16_Monotone ==
    \A a \in Scopes, b \in Scopes, w \in IndexWindows :
        LET ha == OwnSamples(a)
            hb == OwnSamples(b)
        IN  (/\ Len(ha) = Len(hb)
             /\ Len(ha) >= 5
             /\ NegativesInLast(ha, WindowLength(ha, w))
                   <= NegativesInLast(hb, WindowLength(hb, w)))
                => calculate_stress_index(Agg, a, w)
                      <= calculate_stress_index(Agg, b, w)

\* two subjects with histories of one length, the first with strictly fewer
\* negatives in the window and a strictly smaller index
C16_Witness ==
    /\ ret.op = "calculate_stress_index"
    /\ DOMAIN employee_histories = Employees
    /\ Len(employee_histories["E1"]) = Len(employee_histories["E2"])
    /\ Len(employee_histories["E1"]) >= 5
    /\ NegativesInLast(employee_histories["E1"], 3) = 1
    /\ NegativesInLast(employee_histories["E2"], 3) = 3
    /\ calculate_stress_index(Agg, "E1", 3) < calculate_stress_index(Agg, "E2", 3)

----------------------------------------------------------------------------
(* The bounded windows *)

\* the sample an add_emotion step stores
AddedSample == [emotion |-> ret'.emotion, timestamp |-> now,
                confidence |-> ret'.confidence]

\* window after holds window before followed by the new sample, without the
\* oldest sample when the capacity was reached
FifoAppend(before, after) ==
    /\ Len(after) = (IF Len(before) + 1 <= 100 THEN Len(before) + 1 ELSE 100)
    /\ after[Len(after)] = AddedSample
    /\ \A i \in 1..(Len(after) - 1) :
          after[i] = before[i + Len(before) + 1 - Len(after)]

\* C17: every window (each subject's and the global one) holds the most
\* recent min(n, max_history) samples added to it, in arrival order: it never
\* exceeds max_history, and an add stores the new sample last and evicts
\* the oldest sample, and only that one, when the window was full.
C17_Bounded ==
    /\ Len(global_history) <= 100
    /\ \A k \in DOMAIN employee_histories : Len(employee_histories[k]) <= 100

C17_AddStep ==
    ret'.op = "add_emotion" =>
        /\ FifoAppend(global_history, global_history')
        /\ ret'.employee_id \in Employees =>
              /\ ret'.employee_id \in DOMAIN employee_histories'
              /\ FifoAppend(OwnSamples(ret'.employee_id),
                            employee_histories'[ret'.employee_id])

C17_WindowFifo == []C17_Bounded /\ [][C17_AddStep]_vars

\* the global window and the window of E1 are full and have lost their two
\* oldest samples
C17_Witness ==
    /\ ret.op = "add_emotion"
    /\ Len(global_history) = 100
    /\ global_history[1].confidence = 3
    /\ "E1" \in DOMAIN employee_histories
    /\ Len(employee_histories["E1"]) = 100
    /\ employee_histories["E1"][1].confidence = 2

\* C18: an add for a subject appends one and the same sample to that
\* subject's window and to the global window and leaves the window of every
\* other subject as it was; an add without a subject appends to the global
\* window only.
C18_AddStep ==
    ret'.op = "add_emotion" =>
        /\ global_history'[Len(global_history')] = AddedSample
        /\ ret'.employee_id \in Employees =>
              /\ DOMAIN employee_histories'
                    = DOMAIN employee_histories \cup {ret'.employee_id}
              /\ LET own == employee_histories'[ret'.employee_id]
                 IN  own # <<>> /\ own[Len(own)] = AddedSample
              /\ \A k \in DOMAIN employee_histories :
                    k # ret'.employee_id
                       => employee_histories'[k] = employee_histories[k]
        /\ ret'.employee_id = None =>
              employee_histories' = employee_histories
        /\ UNCHANGED <<detection_events, alerts, last_alert_times, stress_events>>

C18_AddFrame == [][C18_AddStep]_vars

\* a first sample of E2 arrived while E1 had a window of its own: it is the
\* last of the global window and the only one of E2
C18_Witness ==
    /\ ret.op = "add_emotion"
    /\ ret.employee_id = "E2"
    /\ DOMAIN employee_histories = {"E1", "E2"}
    /\ Len(employee_histories["E2"]) = 1
    /\ employee_histories["E2"][1] = global_history[Len(global_history)]
    /\ employee_histories["E2"][1].emotion = ret.emotion

----------------------------------------------------------------------------
(* The stress-crossing events *)

\* C19: check_threshold(scope, threshold) returns true and appends exactly
\* one event, carrying the current index, the scope and the emotion of the
\* scope's last sample, when the index of the scope is strictly above the
\* threshold; otherwise it returns false and leaves the log as it was.  It
\* never modifies a window.
C19_CheckStep ==
    ret'.op = "check_stress_threshold" =>
        LET scope == ret'.employee_id
            index == calculate_stress_index(Agg, scope, 0)
            own == OwnSamples(scope)
            n == Len(stress_events)
        IN  /\ UNCHANGED <<global_history, employee_histories>>
            /\ IF index > ret'.threshold
               THEN /\ ret'.result = TRUE
                    /\ Len(stress_events') = n + 1
                    /\ SubSeq(stress_events', 1, n) = stress_events
                    /\ stress_events'[n + 1].stress_index = index
                    /\ stress_events'[n + 1].employee_id = scope
                    /\ own # <<>>
                    /\ stress_events'[n + 1].emotion = own[Len(own)].emotion
               ELSE /\ ret'.result = FALSE
                    /\ stress_events' = stress_events

C19_CheckThreshold == [][C19_CheckStep]_vars

----------------------------------------------------------------------------
(* The predominant emotion *)

\* the labels with the maximum count of a distribution
MaxLabels(distribution) ==
    {l \in DOMAIN distribution :
        \A k \in DOMAIN distribution : distribution[k] <= distribution[l]}

\* the position of the first sample with the label among the samples of a
\* window that are not older than cutoff
FirstSince(window, label, cutoff) ==
    CHOOSE i \in 1..Len(window) :
        /\ window[i].emotion = label /\ window[i].timestamp >= cutoff
        /\ \A j \in 1..(i - 1) :
              ~(window[j].emotion = label /\ window[j].timestamp >= cutoff)

\* C20 as stated: the predominant emotion of metrics(scope) is a label with
\* the maximum count in the distribution, and among several such labels the
\* one whose first sample is the earliest in the retained window.
C20_EarliestInWindow ==
    (ret.op = "get_metrics" /\ DOMAIN ret.result.emotion_distribution # {})
        => LET window == select_history(Agg, ret.employee_id)
               best == MaxLabels(ret.result.emotion_distribution)
               p == ret.result.predominant_emotion
           IN  /\ p \in best
               /\ \A l \in best :
                     FirstSince(window, p, 0) <= FirstSince(window, l, 0)

\* C20 amended: among several labels with the maximum count it is the one
\* whose first counted sample (a sample of the last 24 hours) is the
\* earliest in the window.
C20_EarliestCounted ==
    (ret.op = "get_metrics" /\ DOMAIN ret.result.emotion_distribution # {})
        => LET window == select_history(Agg, ret.employee_id)
               best == MaxLabels(ret.result.emotion_distribution)
               p == ret.result.predominant_emotion
               cutoff == now - 24 * 60
           IN  /\ p \in best
               /\ \A l \in best :
                     FirstSince(window, p, cutoff) <= FirstSince(window, l, cutoff)

\* two labels tie, the oldest retained sample is older than a day and
\* carries the label that is not reported
C20_Witness ==
    /\ ret.op = "get_metrics"
    /\ ret.employee_id = None
    /\ Cardinality(MaxLabels(ret.result.emotion_distribution)) = 2
    /\ global_history[1].timestamp < now - 24 * 60
    /\ global_history[1].emotion # ret.result.predominant_emotion

----------------------------------------------------------------------------
(* Reports *)

\* the period of a generate call made now and the events in it, oldest first
PeriodStart == now - report_interval_minutes
InPeriod(d) == PeriodStart <= d.timestamp /\ d.timestamp <= now
PeriodEvents == SelectSeq(detection_events, InPeriod)
EventsOf(employee_id) ==
    SelectSeq(PeriodEvents, LAMBDA d : d.employee_id = employee_id)
PeriodSubjects ==
    {PeriodEvents[i].employee_id : i \in
        {j \in 1..Len(PeriodEvents) : Truthy(PeriodEvents[j].employee_id)}}

\* the labels with the greatest count in a list of labels
MostFrequent(emotions) ==
    {l \in {emotions[i] : i \in 1..Len(emotions)} :
        \A i \in 1..Len(emotions) :
            CountLabel(emotions, emotions[i]) <= CountLabel(emotions, l)}

\* the tied label that is met first when the list is read from its start
FirstEncountered(emotions) ==
    emotions[CHOOSE i \in 1..Len(emotions) :
                /\ emotions[i] \in MostFrequent(emotions)
                /\ \A j \in 1..(i - 1) : emotions[j] \notin MostFrequent(emotions)]

\* a generate call has just returned a summary
Generated == ret.op = "generate_report" /\ ret.result # NoReport

\* C21: the predominant emotion a report gives for a subject is a label with
\* the greatest count among the subject's events of the period and, among tied
\* labels, the one that occurs first in the event sequence (read oldest first
\* or, as the generator receives it, newest first).
C21_PredominantFirstEncountered ==
    Generated =>
        \A e \in DOMAIN ret.result.employee_details :
            LET emotions == EmotionsOf(EventsOf(e))
                p == ret.result.employee_details[e].predominant_emotion
            IN  /\ p \in MostFrequent(emotions)
                /\ \/ p = FirstEncountered(emotions)
                   \/ p = FirstEncountered(Reverse(emotions))


\* a generate call has just run
GenerateStep == ret'.op = "generate_report" /\ vars' # vars

\* C22: a generate call over a period without detection events returns
\* absent and changes nothing in the store (no report row, no event, no
\* alert), whatever alerts exist.
C22_EmptyPeriodWritesNothing ==
    [][(GenerateStep /\ PeriodEvents = <<>>)
          => /\ ret'.result = NoReport
             /\ reports' = reports
             /\ detection_events' = detection_events
             /\ alerts' = alerts]_vars

\* a generate call over an empty period returned absent while events outside
\* the period and an alert inside the period exist
C22_Witness ==
    /\ ret.op = "generate_report"
    /\ ret.result = NoReport
    /\ PeriodEvents = <<>>
    /\ detection_events # <<>>
    /\ \E i \in 1..Len(alerts) :
           PeriodStart <= alerts[i].timestamp /\ alerts[i].timestamp <= now
    /\ reports = <<>>

\* C23: a generate call that returns a summary has appended that summary to
\* the store, so that latest_report() afterwards returns it; when the write
\* of the report fails, generate returns absent, not a summary.
C23_ReturnedSummaryIsStored ==
    [][GenerateStep =>
          /\ ret'.result # NoReport
                => /\ reports' = Append(reports, ret'.result)
                   /\ ret'.result \in get_latest_report(reports', TRUE)
          /\ (PeriodEvents # <<>> /\ ~ret'.okSave) => ret'.result = NoReport]_vars

\* the events of a list that carry a stress level (0.0 is a level)
WithLevel(events) == SelectSeq(events, LAMBDA d : d.stress_level # NoLevel)

\* C24: in a report, the average stress of each subject of the breakdown is
\* the mean of stress_level over the subject's events of the period that
\* carry a level (0.0 included), as the report-wide average is the mean over
\* all events of the period that carry one (rounded to two decimals).
C24_SubjectAverage ==
    Generated =>
        /\ \A e \in DOMAIN ret.result.employee_details :
               LET levels == WithLevel(EventsOf(e))
                   avg == ret.result.employee_details[e].avg_stress_level
               IN  IF levels = <<>>
                   THEN avg.num = 0
                   ELSE avg.num * Len(levels) = SumLevels(levels) * avg.den
        /\ LET levels == WithLevel(PeriodEvents)
           IN  ret.result.avg_stress_level =
                   IF levels = <<>> THEN 0
                   ELSE RoundAvg2(SumLevels(levels), Len(levels))

----------------------------------------------------------------------------
(* Recognition *)

\* a match call on a face whose embedding could be computed has just returned
Matched == ret.op = "recognize_face" /\ ret.query # NoEmbedding

\* the similarities of the query to the enrolled vectors
Similarities ==
    {_cosine_similarity(ret.query, embeddings_cache[i].embedding) :
        i \in 1..Len(embeddings_cache)}

\* the greatest similarity of the query to an enrolled vector is at least /
\* is below the bound
BestAtLeast(bound) == \E s \in Similarities : SimAtLeast(s, bound)
BestBelow(bound) == \A s \in Similarities : ~SimAtLeast(s, bound)

\* C25: match returns a subject only when the best cosine similarity of the
\* query to the enrolled vectors is at least recognition_threshold; when the
\* best similarity is below the threshold the returned subject is none.
C25_HitOnlyAtThreshold ==
    Matched =>
        /\ ret.result.employee_id # None => BestAtLeast(recognition_threshold)
        /\ BestBelow(recognition_threshold) => ret.result.employee_id = None

\* a hit under the default threshold while another enrolled subject has a
\* positive similarity below the threshold
C25_Witness ==
    /\ Matched
    /\ ret.result.employee_id # None
    /\ recognition_threshold = DefaultThreshold
    /\ \E s \in Similarities : s.sgn = 1 /\ ~SimAtLeast(s, recognition_threshold)

\* a similarity that is the greatest of the similarities to the enrolled vectors
IsMaximum(s) ==
    /\ \E x \in Similarities : SimAtLeast(x, s) /\ SimAtLeast(s, x)
    /\ \A x \in Similarities : SimAtLeast(s, x)

\* C26: on a no-match, match returns none with the greatest cosine
\* similarity found over the enrolled vectors, whatever its sign, and with
\* 0.0 when the registry is empty (which is not an error).
C26_NoMatchReportsMaximum ==
    (Matched /\ ret.result.employee_id = None) =>
        IF Len(embeddings_cache) = 0
        THEN ret.result.similarity = SimZero
        ELSE IsMaximum(ret.result.similarity)

\* C27: when several enrolled subjects share the greatest similarity to the
\* query, a hit names the one that comes first in the insertion order of the
\* registry.
C27_FirstOfEqualMaxima ==
    (Matched /\ ret.result.employee_id # None) =>
        \E i \in 1..Len(embeddings_cache) :
            /\ ret.result.employee_id = embeddings_cache[i].employee_id
            /\ IsMaximum(_cosine_similarity(ret.query, embeddings_cache[i].embedding))
            /\ \A j \in 1..(i - 1) :
                   ~IsMaximum(_cosine_similarity(ret.query,
                                                 embeddings_cache[j].embedding))

\* a hit on a query to which two enrolled subjects are equally similar
C27_Witness ==
    /\ Matched
    /\ ret.result.employee_id # None
    /\ Len(embeddings_cache) = 2
    /\ \A i \in 1..2 :
           IsMaximum(_cosine_similarity(ret.query, embeddings_cache[i].embedding))
    /\ ret.result.employee_id = embeddings_cache[1].employee_id

\* an enroll call has just returned
EnrollStep == ret'.op = "enroll" /\ vars' # vars

\* C28: when enroll returns failure (fewer than 3 samples, fewer than 3 valid
\* embeddings, quality below 0.70, or an error while saving) the registry,
\* i.e. the embedding cache in memory and the stored embedding entries, is as
\* it was before the call.
C28_FailedEnrollLeavesRegistry ==
    [][(EnrollStep /\ ~ret'.result)
          => /\ embeddings_cache' = embeddings_cache
             /\ enrollment_files' = enrollment_files]_vars

----------------------------------------------------------------------------
(* Threads *)

\* the handlers in progress, as (thread, depth) positions, and those of a kind
Handlers == {p \in Threads \X (1..MaxQueue) : p[2] <= Len(stacks[p[1]])}
HandlersOf(kind) == {p \in Handlers : stacks[p[1]][p[2]].kind = kind}

\* the steps that are Event Store I/O, aggregator calls, evaluate or generate
HandlerOps ==
    {"add_emotion", "add_detection", "evaluate_check", "evaluate_write",
     "evaluate_stamp", "evaluate_fatigue", "generate_report"}

\* C29: Event Store I/O and the aggregator's add never run on the capture
\* thread, which only posts its detections to the event queue of the GUI
\* thread; every add / append_detection / evaluate / generate step runs on
\* the GUI thread, one handler at a time, so that two mutations of a window
\* never overlap.
C29_OneCoordinatingThread ==
    /\ [](stacks["capture"] = <<>> /\ Cardinality(Handlers) <= 1)
    /\ [][/\ (ret'.op \in HandlerOps /\ vars' # vars) => ret'.thread = "main"
          /\ (ret'.op = "emit" /\ vars' # vars)
                => /\ UNCHANGED <<detection_events, alerts, last_alert_times,
                                  global_history, employee_histories,
                                  stress_events, reports>>
                   /\ Len(event_queue') = Len(event_queue) + 1]_vars

\* the capture thread has emitted a frame with detections while the GUI
\* thread is in the middle of process_detections of an earlier frame
C29_Witness ==
    /\ ret.op = "emit"
    /\ Running("main", "frame", "store")
    /\ event_queue # <<>>
    /\ event_queue[Len(event_queue)].kind = "frame"
    /\ event_queue[Len(event_queue)].detections # <<>>

\* an evaluate call that has passed its cooldown check and has not yet
\* updated (or given up updating) the cooldown entry
BetweenCheckAndStamp(p) ==
    /\ stacks[p[1]][p[2]].kind = "check_alerts"
    /\ stacks[p[1]][p[2]].pc \in {"write", "stamp"}

\* C30: whatever the interleaving of the evaluate timer, the report timer and
\* the processing of detections, no other evaluate call runs between the
\* cooldown check, the alert write and the cooldown update of an evaluate
\* call, and no cooldown key is fired twice: two alerts of one key are at
\* least cooldown_minutes apart.
C30_EvaluateNotInterleaved ==
    /\ \A p \in Handlers :
           BetweenCheckAndStamp(p) => HandlersOf("check_alerts") = {p}
    /\ \A i \in 1..Len(alerts), j \in 1..Len(alerts) :
           (i < j /\ SameKey(alerts[i], alerts[j]))
               => alerts[j].timestamp - alerts[i].timestamp >= cooldown_minutes

\* an evaluate call found the trigger condition true and the cooldown of its
\* key running, after an alert of that key was written, while further timer
\* and frame events wait in the queue
C30_Witness ==
    /\ ret.op = "evaluate_check"
    /\ Running("main", "check_alerts", "fatigue")
    /\ Triggered(Top("main").employee_id)
    /\ \E i \in 1..Len(alerts) :
           /\ alerts[i].alert_type = "high_stress_prolonged"
           /\ alerts[i].employee_id = Top("main").employee_id
    /\ \E i \in 1..Len(event_queue) : event_queue[i].kind = "check_alerts"
    /\ \E i \in 1..Len(event_queue) : event_queue[i].kind # "check_alerts"

----------------------------------------------------------------------------
(* Data flow *)

\* every emitted frame has been processed
Quiescent == event_queue = <<>> /\ \A t \in Threads : stacks[t] = <<>>

\* the detection writes that have been attempted: the rows stored and the
\* writes that failed are not told apart by the windows
Stored == Len(detection_events)

\* C31: each observation the perception produces (one per face of an
\* analysed frame) is added to the aggregator exactly once and, its write
\* succeeding, stored as exactly one detection event; frames that are not
\* analysed contribute no sample and no event. Once every emitted frame has
\* been processed, the global window holds as many samples as observations
\* were produced, and the store holds no more events than that.
C31_EachObservationOnce ==
    Quiescent =>
        /\ Len(global_history) = observed
        /\ Stored <= observed

\* the detections that are still to be added to the aggregator: those of the
\* waiting frames and of the batch in progress, without the one whose
\* sample was added and whose write comes next
ToAdd ==
    PendingIn(event_queue) + PendingIn(stacks["main"])
    - (IF Running("main", "frame", "store") THEN 1 ELSE 0)

\* C33: a failed detection write does not halt the aggregation. The step
\* that writes a detection, failing or not, leaves the sample in the windows
\* and goes on with the rest of the batch; every other step of the
\* processing keeps the number of samples added plus detections still to be
\* added, so that every detection of the batch and of the later batches is
\* added, and its write attempted.
C33_FailedWriteDoesNotHalt ==
    [][/\ (ret'.op = "add_detection" /\ vars' # vars)
            => /\ global_history' = global_history
               /\ employee_histories' = employee_histories
               /\ Len(detection_events') =
                     Len(detection_events) + (IF ret'.ok THEN 1 ELSE 0)
               /\ Running("main", "frame", "add")'
               /\ Top("main").detections' = Tail(Top("main").detections)
       /\ (ret'.op \in {"add_detection", "add_emotion", "dispatch"} /\ vars' # vars)
            => Len(global_history') + ToAdd' = Len(global_history) + ToAdd]_vars

\* after a failed write of the first detection of a batch, the second one
\* has been added, and a later batch waits
C33_Witness ==
    /\ ret.op = "add_emotion"
    /\ Running("main", "frame", "store")
    /\ Len(Top("main").detections) = 1
    /\ Len(global_history) = 2
    /\ detection_events = <<>>
    /\ event_queue # <<>>

----------------------------------------------------------------------------
(* Failures *)

\* a periodic tick (evaluate or generate) has just run
TickStep ==
    /\ ret'.op \in {"check_alerts", "generate_periodic_report"}
    /\ vars' # vars

\* C32: an Event Store read that fails during evaluate or generate is caught
\* and surfaced as an empty or absent result: no exception reaches the
\* periodic tick that made the call, and a call whose read failed creates no
\* alert, no report and no cooldown entry.
C32_ReadFailureIsCaught ==
    [][TickStep =>
          /\ ~ret'.raised
          /\ ~ret'.okRead => /\ alerts' = alerts
                             /\ reports' = reports
                             /\ last_alert_times' = last_alert_times]_vars

\* the values an AlertEngine can work with
ValidConfig(cfg) ==
    /\ cfg.alert_threshold > 0
    /\ cfg.alert_window_minutes > 0
    /\ cfg.cooldown_minutes >= 0

\* C34: invalid configuration is rejected at startup and never surfaces at
\* runtime: the engine is never constructed with a negative or zero
\* threshold, a non-positive window or a negative cooldown, and no evaluate
\* call fails because of such a value.
C34_InvalidConfigRejected ==
    /\ ValidConfig(config)
    /\ ret.op = "evaluate" => ~ret.raised

----------------------------------------------------------------------------
(* Queries and updates of stored alerts *)

PendingIds == {i \in 1..Len(alerts) : alerts[i].status = "pending"}

ReturnedIds(result) == {result[i].alert_id : i \in 1..Len(result)}

\* C35: pending_alerts(limit) returns only pending alerts, each once, most
\* recent first, at most limit of them; with more than limit pending alerts
\* it returns limit of them and none left out is more recent than one
\* returned. Acknowledged and resolved alerts never appear.
C35_PendingMostRecentFirst ==
    ret.op = "get_pending_alerts" =>
        LET result == ret.result
            ids == ReturnedIds(result)
        IN  /\ \A i \in 1..Len(result) : result[i] = alerts[result[i].alert_id]
            /\ ids \subseteq PendingIds
            /\ Cardinality(ids) = Len(result)
            /\ Len(result) = Min(ret.limit, Cardinality(PendingIds))
            /\ \A i, j \in 1..Len(result) :
                  i < j => result[i].timestamp >= result[j].timestamp
            /\ \A k \in PendingIds \ ids, i \in 1..Len(result) :
                  alerts[k].timestamp <= result[i].timestamp

\* two pending alerts of different times are stored, and a query with limit 1
\* returned the more recent one
C35_Witness ==
    /\ ret.op = "get_pending_alerts"
    /\ ret.limit = 1
    /\ Cardinality(PendingIds) = 2
    /\ Len(ret.result) = 1
    /\ \E k \in PendingIds : alerts[k].timestamp < ret.result[1].timestamp

\* C40: acknowledge or resolve called with an alert_id that matches no stored
\* alert leaves every stored alert unchanged, creates no alert, and reports
\* failure to the caller.
C40_UnknownIdReportsFailure ==
    [][(/\ ret'.op \in {"acknowledge", "resolve"}
        /\ vars' # vars
        /\ ret'.was = "none")
          => /\ alerts' = alerts
             /\ ~ret'.result]_vars

----------------------------------------------------------------------------
(* Samples of a failed analysis *)

\* the samples stress_index counts for a scope, and its negative ones
IndexSamples(agg, scope) == LastN(select_history(agg, scope), window_size)

\* the neutral samples the fatigue rule counts for a scope
NeutralCount(agg, scope) ==
    Cardinality({i \in 1..Len(select_history(agg, scope)) :
                    /\ select_history(agg, scope)[i].emotion = "neutral"
                    /\ select_history(agg, scope)[i].timestamp >= now - FatigueHours * 60})

\* an add of a neutral sample of confidence 0 has just run
FailedAnalysisAdd ==
    /\ ret'.op = "add_emotion"
    /\ vars' # vars
    /\ ret'.emotion = "neutral"
    /\ ret'.confidence = 0

\* C36: a sample with emotion neutral and confidence 0.0 is handled by add
\* like any other: it is appended to the global window and to the window of
\* its subject; in every window it reached, stress_index counts one sample
\* more and no negative sample more, and the fatigue rule counts one neutral
\* sample more.
C36_FailedAnalysisSampleCounts ==
    [][FailedAnalysisAdd =>
          LET sample == [emotion |-> "neutral", timestamp |-> now, confidence |-> 0]
              reached == IF Truthy(ret'.employee_id)
                         THEN {None, ret'.employee_id} ELSE {None}
          IN  /\ global_history' = Append(global_history, sample)
              /\ Truthy(ret'.employee_id) =>
                    employee_histories'[ret'.employee_id] =
                       Append(employee_histories[ret'.employee_id], sample)
              /\ \A s \in reached :
                    /\ Len(IndexSamples(Agg', s)) = Len(IndexSamples(Agg, s)) + 1
                    /\ CountIn(IndexSamples(Agg', s), NEGATIVE_EMOTIONS)
                          = CountIn(IndexSamples(Agg, s), NEGATIVE_EMOTIONS)
                    /\ DictGet(get_emotion_distribution(Agg, s, FatigueHours), "neutral")'
                          = NeutralCount(Agg, s) + 1]_vars

\* the neutral sample of confidence 0 was the one that completed the fatigue
\* rule: the evaluate after it raised a fatigue alert for the global scope
C36_Witness ==
    /\ ret.op = "evaluate"
    /\ ret.employee_id = None
    /\ Len(global_history) = Len(WarmFatigue) + 1
    /\ global_history[Len(global_history)].emotion = "neutral"
    /\ global_history[Len(global_history)].confidence = 0
    /\ \E i \in 1..Len(ret.alerts) : ret.alerts[i].alert_type = "fatigue_detected"

----------------------------------------------------------------------------
(* Cooldown entries *)

\* the cooldown entry (alert type, scope): when it last fired, NoTime if never
EntryOf(type, scope) ==
    IF <<type, KeyScope(scope)>> \in DOMAIN last_alert_times
    THEN last_alert_times[<<type, KeyScope(scope)>>]
    ELSE NoTime

\* C37: cooldown entries are per key and independent: evaluate(S) writes only
\* the entries (high_stress_prolonged, S) and (fatigue_detected, S); the
\* entry of any other scope, the global scope versus a subject included, is
\* left as it was.
C37_CooldownKeysIndependent ==
    [][EvaluateStep =>
          \A s \in KeyScopes \ {ret'.employee_id}, type \in {"high_stress", "fatigue"} :
              EntryOf(type, s)' = EntryOf(type, s)]_vars

----------------------------------------------------------------------------
(* The level of a high-stress alert *)

HighStressAlerts ==
    {i \in 1..Len(alerts) : alerts[i].alert_type = "high_stress_prolonged"}

\* C38: every high_stress_prolonged alert has a stress_level in (0.7, 1.0]
\* and a severity high or medium, never low.
C38_HighStressLevelRange ==
    \A i \in HighStressAlerts :
        /\ alerts[i].stress_level.num > HighStressLevel * alerts[i].stress_level.den
        /\ alerts[i].stress_level.num <= 10000 * alerts[i].stress_level.den
        /\ alerts[i].severity \in {"high", "medium"}

\* a high-stress alert exists whose counted events are not all at level 1.0,
\* next to events of the window that were left out of its average
C38_Witness ==
    \E i \in HighStressAlerts :
        /\ alerts[i].stress_level.num < 10000 * alerts[i].stress_level.den
        /\ \E k \in 1..Len(detection_events) :
              /\ detection_events[k].timestamp = alerts[i].timestamp
              /\ detection_events[k].stress_level > 0
              /\ detection_events[k].stress_level <= HighStressLevel

----------------------------------------------------------------------------
(* The log of stress events *)

\* the logged events recorded for a scope
LoggedFor(scope) ==
    Cardinality({i \in 1..Len(stress_events) : stress_events[i].employee_id = scope})

\* C39: the log of stress events is append-only: no call (add,
\* check_threshold, metrics, clear_history) removes or changes a logged
\* event; metrics(S).stress_events_count is the number of logged events
\* recorded for subject S, and for the global scope the number of all logged
\* events.
C39_LogAppendOnly ==
    /\ [](ret.op = "get_metrics" =>
            ret.result.stress_events_count =
               IF ret.employee_id = None THEN Len(stress_events)
               ELSE LoggedFor(ret.employee_id))
    /\ [][/\ Len(stress_events') >= Len(stress_events)
          /\ SubSeq(stress_events', 1, Len(stress_events)) = stress_events]_vars

\* after events were logged for the global scope and for a subject, the
\* windows were cleared and the metrics of the subject still count its event
C39_Witness ==
    /\ ret.op = "get_metrics"
    /\ ret.employee_id = "E1"
    /\ ret.result.stress_events_count = 1
    /\ Len(stress_events) = 2
    /\ global_history = <<>>

====
